---------------------------- MODULE Spec2Model ----------------------------
(***************************************************************************)
(* Session event-stream engine of dev-agent-day2day: the bounded recent-   *)
(* event cache (RingBuffer), the session registry and lifecycle, the       *)
(* broadcast (handleEvent), the context aggregate (updateContextState),    *)
(* the SQLite store and the Claude Code adapter that feeds the engine.     *)
(***************************************************************************)
EXTENDS Integers, Sequences, FiniteSets, TLC

VARIABLES
    rb,              \* a stand-alone RingBuffer<T> object
    rbPushed,        \* history: the items pushed into rb since it was built or cleared
    activeSessions,  \* session-manager: Map<string, ActiveSession>
    dbSessions,      \* SQLite table sessions, by id
    dbEvents,        \* SQLite table events, in insertion (rowid) order
    adapters,        \* the ClaudeCodeAdapter objects built so far (the heap)
    sockets,         \* the ServerWebSocket objects: state (new, open, broken, closed)
                     \* and data.sessionId
    sent,            \* per socket, the strings ws.send took while the connection was up
    usedIds,         \* the session ids nanoid has produced
    nextEventId      \* the number of event ids nanoid has produced

rbVars == <<rb, rbPushed>>
engineVars == <<activeSessions, dbSessions, dbEvents, adapters, sockets, sent,
                usedIds, nextEventId>>
vars == <<rb, rbPushed, activeSessions, dbSessions, dbEvents, adapters, sockets, sent,
          usedIds, nextEventId>>

---------------------------------------------------------------------------
(* Bounds of the model                                                     *)

\* largest capacity a stand-alone RingBuffer is built with
MaxCapacity == 3
\* most pushes into the stand-alone RingBuffer between two clears
MaxPushes == 5
\* most events handed to the engine in one behaviour of Spec
MaxEvents == 2
\* most ClaudeCodeAdapter objects built between two restarts in Spec
MaxAdapters == 1
\* most ClaudeCodeAdapter objects built between two restarts in SpecLife and SpecTwo
MaxStarts == 2
\* most events handed to the engine in one behaviour of SpecTwo
MaxEventsTwo == 4
\* most events handed to the engine in one behaviour of SpecLog
MaxRows == 3
\* most events handed to the engine in one behaviour of SpecFold
MaxFolds == 3
\* most tool_call events handed to the engine in one behaviour of SpecTools
MaxCalls == 52
\* most of them that are calls of Write
MaxWrites == 1
\* most events handed to the engine in one behaviour of SpecCalls
MaxToolLines == 4

Items == {"a", "b"}

---------------------------------------------------------------------------
(* utils/ring-buffer.ts                                                    *)

\* new Array(capacity): a sparse array, no index assigned yet
EmptyArray == [i \in {} |-> 0]

\* buffer[index] = item
ArraySet(buffer, index, item) ==
    [i \in (DOMAIN buffer) \cup {index} |-> IF i = index THEN item ELSE buffer[i]]

\* constructor(capacity)
RingBuffer(capacity) ==
    [capacity |-> capacity, buffer |-> EmptyArray, writeIndex |-> 0, count |-> 0]

\* a push whose count is not held at the capacity: what the bound on size() rules out
pushGrowing(r, item) ==
    [r EXCEPT !.buffer = ArraySet(r.buffer, r.writeIndex, item),
              !.writeIndex = (r.writeIndex + 1) % r.capacity,
              !.count = r.count + 1]

\* push(item)
push(r, item) ==
    [r EXCEPT !.buffer = ArraySet(r.buffer, r.writeIndex, item),
              !.writeIndex = (r.writeIndex + 1) % r.capacity,
              !.count = IF r.count < r.capacity THEN r.count + 1 ELSE r.count]

\* the loop of getAll from step i: items at (start + i) % capacity, undefined skipped
RECURSIVE getAllLoop(_, _, _)
getAllLoop(r, start, i) ==
    IF i >= r.count THEN <<>>
    ELSE LET index == (start + i) % r.capacity
         IN  (IF index \in DOMAIN r.buffer THEN <<r.buffer[index]>> ELSE <<>>)
             \o getAllLoop(r, start, i + 1)

\* a getAll that always reads from index 0: what the order of getAll rules out
getAllFromZero(r) ==
    IF r.count = 0 THEN <<>> ELSE getAllLoop(r, 0, 0)

\* getAll()
getAll(r) ==
    IF r.count = 0 THEN <<>>
    ELSE getAllLoop(r, IF r.count < r.capacity THEN 0 ELSE r.writeIndex, 0)

\* Array.prototype.slice(-n) for n >= 0: -0 is 0, so slice(-0) is the whole array
sliceFromEnd(all, n) ==
    IF n = 0 THEN all
    ELSE SubSeq(all, (IF n < Len(all) THEN Len(all) - n ELSE 0) + 1, Len(all))

\* getRecent(n)
getRecent(r, n) == sliceFromEnd(getAll(r), n)

\* clear()
clear(r) == [r EXCEPT !.buffer = EmptyArray, !.writeIndex = 0, !.count = 0]

\* size()
size(r) == r.count

---------------------------------------------------------------------------
(* Generic helpers                                                         *)

Min(a, b) == IF a < b THEN a ELSE b

\* the last n elements of s (all of s when n >= Len(s))
LastN(s, n) == SubSeq(s, Len(s) - Min(n, Len(s)) + 1, Len(s))

\* Map.set(k, v) / Map.delete(k) on a map kept as a function on its keys
MapSet(m, k, v) == [x \in (DOMAIN m) \cup {k} |-> IF x = k THEN v ELSE m[x]]
MapDelete(m, k) == [x \in (DOMAIN m) \ {k} |-> m[x]]
EmptyMap == [x \in {} |-> 0]

\* Array.prototype.includes
Includes(s, x) == \E i \in 1..Len(s) : s[i] = x

---------------------------------------------------------------------------
(* Values the environment supplies                                         *)

\* nanoid(10) never repeats an id: the ids are taken in this order
SessionOrder == <<"s1", "s2">>
SessionIds == {SessionOrder[i] : i \in DOMAIN SessionOrder}
OneSession == {SessionOrder[1]}
\* the connections the server accepts, in this order
SocketOrder == <<"w1", "w2">>
WebSockets == {SocketOrder[i] : i \in DOMAIN SocketOrder}
AgentTypes == {"claude-code", "cursor"}
\* Date.now(): nothing the engine does depends on the clock, one instant is drawn
Timestamps == {1}
\* Date.now() where the reading of the log by timestamp is at stake: two instants,
\* taken in any order (the clock may stand still or be set back)
Clock == {1, 2}
\* the prompt texts sent through POST /session/:id/prompt, with their lengths
Prompts == {"hi"}
PromptLength(message) == CASE message = "hi" -> 2

---------------------------------------------------------------------------
(* session-manager.ts: the context aggregate                               *)

TokensLimit == 200000
RecentToolsMax == 50
RecentEventsCapacity == 100

ZeroBreakdown == [system |-> 0, skills |-> 0, mcp |-> 0, messages |-> 0, buffer |-> 0]

\* createInitialContext()
createInitialContext ==
    [tokens |-> [used |-> 0, limit |-> TokensLimit, breakdown |-> ZeroBreakdown],
     activeSkills |-> <<>>,
     activeMcp |-> <<>>,
     recentTools |-> <<>>,
     filesModified |-> <<>>]

\* An event is a record id, type, timestamp, sessionId, data and, when set, tokens.
HasTokens(event) == "tokens" \in DOMAIN event

\* a skill_activated fold that skips a skill it holds already: what the count of the
\* skills list rules out
foldSkillActivatedOnce(cs, event) ==
    IF \E i \in 1..Len(cs.activeSkills) : cs.activeSkills[i].name = event.data.skillName
    THEN cs
    ELSE [cs EXCEPT !.activeSkills =
             Append(@, [name |-> event.data.skillName,
                        source |-> event.data.source,
                        tokens |-> event.data.tokensAdded])]

\* case 'skill_activated'
foldSkillActivated(cs, event) ==
    [cs EXCEPT !.activeSkills =
        Append(@, [name |-> event.data.skillName,
                   source |-> event.data.source,
                   tokens |-> event.data.tokensAdded])]

\* activeMcp.find((m) => m.server === server): the index of the first match from
\* i on, 0 when there is none
RECURSIVE findServer(_, _, _)
findServer(activeMcp, server, i) ==
    IF i > Len(activeMcp) THEN 0
    ELSE IF activeMcp[i].server = server THEN i
    ELSE findServer(activeMcp, server, i + 1)

\* an mcp_call fold that tracks a new server for every call: what the single entry
\* per server rules out
foldMcpCallAlwaysNew(cs, event) ==
    [cs EXCEPT !.activeMcp =
        Append(@, [server |-> event.data.server, tools |-> <<event.data.tool>>])]

\* case 'mcp_call'
foldMcpCall(cs, event) ==
    LET existing == findServer(cs.activeMcp, event.data.server, 1)
    IN  IF existing # 0
        THEN IF Includes(cs.activeMcp[existing].tools, event.data.tool)
             THEN cs
             ELSE [cs EXCEPT !.activeMcp[existing].tools = Append(@, event.data.tool)]
        ELSE [cs EXCEPT !.activeMcp =
                 Append(@, [server |-> event.data.server, tools |-> <<event.data.tool>>])]

\* a tool_call fold that never drops an entry: what the bound on the recent-tools
\* list rules out
foldToolCallKeepAll(cs, event) ==
    [cs EXCEPT !.recentTools = <<[name |-> event.data.toolName,
                                  status |-> event.data.status,
                                  timestamp |-> event.timestamp]>> \o @]

\* case 'tool_call'
foldToolCall(cs, event) ==
    LET unshifted == <<[name |-> event.data.toolName,
                        status |-> event.data.status,
                        timestamp |-> event.timestamp]>> \o cs.recentTools
        kept == IF Len(unshifted) > RecentToolsMax
                THEN SubSeq(unshifted, 1, Len(unshifted) - 1)
                ELSE unshifted
        tracked == /\ event.data.toolName \in {"Write", "Edit"}
                   /\ "file_path" \in DOMAIN event.data.input
                   /\ event.data.input.file_path # ""
                   /\ ~Includes(cs.filesModified, event.data.input.file_path)
    IN  [cs EXCEPT !.recentTools = kept,
                   !.filesModified = IF tracked
                                     THEN Append(@, event.data.input.file_path)
                                     ELSE @]

\* a find that answers the last match, the oldest entry: what the choice of the most
\* recently recorded entry rules out
findToolOldest(recentTools, timestamp, toolName, i) ==
    IF \E j \in i..Len(recentTools) :
          recentTools[j].timestamp = timestamp \/ recentTools[j].name = toolName
    THEN CHOOSE j \in i..Len(recentTools) :
            /\ recentTools[j].timestamp = timestamp \/ recentTools[j].name = toolName
            /\ \A k \in (j + 1)..Len(recentTools) :
                  ~(recentTools[k].timestamp = timestamp \/ recentTools[k].name = toolName)
    ELSE 0

\* recentTools.find((t) => t.timestamp === timestamp || t.name === toolName): the
\* index of the first match from i on, 0 when there is none
RECURSIVE findTool(_, _, _, _)
findTool(recentTools, timestamp, toolName, i) ==
    IF i > Len(recentTools) THEN 0
    ELSE IF recentTools[i].timestamp = timestamp \/ recentTools[i].name = toolName THEN i
    ELSE findTool(recentTools, timestamp, toolName, i + 1)

\* case 'tool_result'
foldToolResult(cs, event) ==
    LET tool == findTool(cs.recentTools, event.timestamp, event.data.toolName, 1)
    IN  IF tool # 0
        THEN [cs EXCEPT !.recentTools[tool].status =
                 IF event.data.isError THEN "error" ELSE "done"]
        ELSE cs

\* case 'context_update'
foldContextUpdate(cs, event) ==
    [cs EXCEPT !.tokens = [used |-> event.data.totalTokens,
                           limit |-> event.data.limit,
                           breakdown |-> event.data.breakdown]]

\* the switch of updateContextState
foldByType(cs, event) ==
    CASE event.type = "skill_activated" -> foldSkillActivated(cs, event)
      [] event.type = "mcp_call" -> foldMcpCall(cs, event)
      [] event.type = "tool_call" -> foldToolCall(cs, event)
      [] event.type = "tool_result" -> foldToolResult(cs, event)
      [] event.type = "context_update" -> foldContextUpdate(cs, event)
      [] OTHER -> cs

\* the if (event.tokens) block of updateContextState, on the aggregate
foldTokens(cs, event) ==
    IF HasTokens(event)
    THEN [cs EXCEPT !.tokens = [used |-> event.tokens.total,
                                limit |-> event.tokens.limit,
                                breakdown |-> event.tokens.breakdown]]
    ELSE cs

\* a fold that applies the tokens of the event after the switch: what the authority of
\* context_update over the tracked usage rules out
updateContextStateTokensLast(active, event) ==
    [active EXCEPT
        !.contextState = foldTokens(foldByType(@, event), event),
        !.session.tokensUsed = IF HasTokens(event) THEN event.tokens.total ELSE @]

\* updateContextState(active, event)
updateContextState(active, event) ==
    [active EXCEPT
        !.contextState = foldByType(foldTokens(@, event), event),
        !.session.tokensUsed = IF HasTokens(event) THEN event.tokens.total ELSE @]

---------------------------------------------------------------------------
(* JSON and db/database.ts                                                 *)

\* A token breakdown held in memory is either its five numbers or, for the data of
\* an adapter's context_update, the adapter's own tokenBreakdown object ([ref |-> a]).
DerefBreakdown(b, heap) ==
    IF "ref" \in DOMAIN b THEN heap[b.ref].tokenBreakdown ELSE b

\* JSON.stringify(event.data): the values the object graph holds at that moment
stringifyData(data, heap) ==
    IF "breakdown" \in DOMAIN data
    THEN [data EXCEPT !.breakdown = DerefBreakdown(@, heap)]
    ELSE data

\* JSON.stringify(event)
stringifyEvent(event, heap) == [event EXCEPT !.data = stringifyData(@, heap)]

\* insertEvent(event): the row it inserts; tokens is <<>> for NULL
insertEvent(event, heap) ==
    [id |-> event.id,
     session_id |-> event.sessionId,
     type |-> event.type,
     data |-> stringifyData(event.data, heap),
     tokens |-> IF HasTokens(event) THEN <<event.tokens>> ELSE <<>>,
     timestamp |-> event.timestamp]

\* the rows.map of getEvents: one row back to an AgentEvent
rowToEvent(row) ==
    LET base == [id |-> row.id,
                 sessionId |-> row.session_id,
                 type |-> row.type,
                 data |-> row.data,
                 timestamp |-> row.timestamp]
    IN  IF row.tokens # <<>> THEN base @@ [tokens |-> row.tokens[1]] ELSE base

\* SELECT * FROM events WHERE session_id = ? in insertion order
RECURSIVE eventsOf(_, _)
eventsOf(rows, sessionId) ==
    IF rows = <<>> THEN <<>>
    ELSE (IF Head(rows).session_id = sessionId THEN <<Head(rows)>> ELSE <<>>)
         \o eventsOf(Tail(rows), sessionId)

\* a delete that leaves the events table as it is: what the removal of the rows rules out
keepEventsOf(rows, sessionId) == rows

\* DELETE FROM events WHERE session_id = ?
RECURSIVE deleteEventsOf(_, _)
deleteEventsOf(rows, sessionId) ==
    IF rows = <<>> THEN <<>>
    ELSE (IF Head(rows).session_id = sessionId THEN <<>> ELSE <<Head(rows)>>)
         \o deleteEventsOf(Tail(rows), sessionId)

\* the rows WHERE session_id = ? [AND type = ?] selects, in insertion order; type is
\* "" when the caller gives none
RECURSIVE selectEvents(_, _, _)
selectEvents(rows, sessionId, type) ==
    IF rows = <<>> THEN <<>>
    ELSE (IF Head(rows).session_id = sessionId /\ (type = "" \/ Head(rows).type = type)
          THEN <<Head(rows)>> ELSE <<>>)
         \o selectEvents(Tail(rows), sessionId, type)

\* ORDER BY timestamp DESC: every arrangement of the rows with the timestamps
\* falling; SQL leaves the order of rows with equal timestamps open
orderByTimestampDesc(rows) ==
    { [i \in 1..Len(rows) |-> rows[p[i]]] :
        p \in { q \in [1..Len(rows) -> 1..Len(rows)] :
                  /\ \A i, j \in 1..Len(rows) : i # j => q[i] # q[j]
                  /\ \A i, j \in 1..Len(rows) :
                        i < j => rows[q[i]].timestamp >= rows[q[j]].timestamp } }

\* LIMIT ? OFFSET ?
limitOffset(rows, limit, offset) ==
    SubSeq(rows, offset + 1, Min(offset + limit, Len(rows)))

\* getEvents(sessionId, {offset, limit, type}): the pages the query may answer
getEvents(sessionId, offset, limit, type) ==
    { [i \in 1..Len(limitOffset(ordered, limit, offset)) |->
          rowToEvent(limitOffset(ordered, limit, offset)[i])] :
        ordered \in orderByTimestampDesc(selectEvents(dbEvents, sessionId, type)) }

---------------------------------------------------------------------------
(* session-manager.ts: handleEvent                                         *)

\* The state one handler run reads and writes, threaded through its calls:
\* inserts counts the insertEvent calls of the run, threw is a pending exception.
World ==
    [activeSessions |-> activeSessions, dbEvents |-> dbEvents, adapters |-> adapters,
     sent |-> sent, nextEventId |-> nextEventId, inserts |-> 0, threw |-> FALSE]

\* whether the n-th insertEvent call of a handler run succeeds: a run of the lines
\* and prompts drawn here inserts at most twice
DbOutcomes == [1..2 -> BOOLEAN]
DbWorks == {[n \in 1..2 |-> TRUE]}

\* ws.send(message) on the stream of socket w: the message goes out (or is queued
\* behind backpressure) while the connection is up, and is dropped, send answering
\* 0, once the connection is lost
wsSend(stream, w, message) ==
    IF sockets[w].state = "open" THEN Append(stream, message) ELSE stream

\* a broadcast that ends at the first send that fails, the sockets taken in the
\* order they connected: what the isolation of the subscribers rules out
broadcastUntilFailure(sentNow, subscribers, message) ==
    [w \in DOMAIN sentNow |->
        IF w \in subscribers
              /\ \A i, j \in DOMAIN SocketOrder :
                    (SocketOrder[j] = w /\ i <= j /\ SocketOrder[i] \in subscribers)
                        => sockets[SocketOrder[i]].state = "open"
        THEN Append(sentNow[w], message) ELSE sentNow[w]]

\* for (const ws of active.subscribers) ws.send(message)
broadcast(sentNow, subscribers, message) ==
    [w \in DOMAIN sentNow |->
        IF w \in subscribers THEN wsSend(sentNow[w], w, message) ELSE sentNow[w]]

\* handleEvent after the push: db.insertEvent, updateContextState, the broadcast;
\* an insert that fails throws, and nothing after it runs
persistFoldSend(cached, sessionId, event, dbOk) ==
    IF ~dbOk[cached.inserts] THEN [cached EXCEPT !.threw = TRUE]
    ELSE [cached EXCEPT
            !.dbEvents = Append(@, insertEvent(event, cached.adapters)),
            !.activeSessions[sessionId] = updateContextState(@, event),
            !.sent = broadcast(@, cached.activeSessions[sessionId].subscribers,
                               stringifyEvent(event, cached.adapters))]

\* handleEvent(sessionId, event)
handleEvent(W, sessionId, event, dbOk) ==
    IF sessionId \notin DOMAIN W.activeSessions THEN W
    ELSE persistFoldSend(
             [W EXCEPT !.activeSessions[sessionId].recentEvents = push(@, event),
                       !.inserts = @ + 1],
             sessionId, event, dbOk)

---------------------------------------------------------------------------
(* adapters/claude-code.ts                                                 *)

SystemPromptTokens == 15000
SkillTokens == 2000

\* the lines the claude process may write; json lines carry the parsed event
StreamLines ==
    { [json |-> TRUE, type |-> "usage", raw |-> "{usage}",
       usage |-> [input_tokens |-> 15500, output_tokens |-> 500]],
      [json |-> TRUE, type |-> "error", raw |-> "{error}", message |-> "boom"],
      [json |-> FALSE, type |-> "", raw |-> "plain text", box |-> FALSE] }

\* name.startsWith('mcp__'), and the parts of name.split('__')
IsMcpName(name) == name \in {"mcp__fs__read"}
McpServer(name) == CASE name = "mcp__fs__read" -> "fs"
McpTool(name) == CASE name = "mcp__fs__read" -> "read"

\* new ClaudeCodeAdapter(sessionId, workingDir, onEvent)
ClaudeCodeAdapter(sessionId) ==
    [sessionId |-> sessionId,
     process |-> FALSE,      \* this.process is not null
     running |-> FALSE,
     paused |-> FALSE,
     reading |-> FALSE,      \* readOutput is in its loop
     proc |-> "none",        \* the spawned process: none, alive, killed, exited
     pendingToolCalls |-> EmptyMap,
     totalTokens |-> 0,
     tokenBreakdown |-> [system |-> SystemPromptTokens, skills |-> 0, mcp |-> 0,
                         messages |-> 0, buffer |-> 0]]

\* updateTotalTokens()
updateTotalTokens(adapter) ==
    [adapter EXCEPT !.totalTokens = adapter.tokenBreakdown.system
                                    + adapter.tokenBreakdown.skills
                                    + adapter.tokenBreakdown.mcp
                                    + adapter.tokenBreakdown.messages]

\* start(), spawned telling whether Bun.spawn succeeds (it throws when it does not)
adapterStart(adapter, spawned) ==
    IF adapter.running THEN adapter
    ELSE IF ~spawned THEN adapter
    ELSE [adapter EXCEPT !.process = TRUE, !.proc = "alive",
                         !.running = TRUE, !.reading = TRUE]

\* stop()
adapterStop(adapter) ==
    [adapter EXCEPT !.process = FALSE,
                    !.proc = IF adapter.process /\ @ = "alive" THEN "killed" ELSE @,
                    !.running = FALSE]

\* pause() / resume()
adapterPause(adapter) == [adapter EXCEPT !.paused = TRUE]
adapterResume(adapter) == [adapter EXCEPT !.paused = FALSE]

\* sendPrompt(message) throws when there is no process or it is not running
adapterSendPromptThrows(adapter) == ~adapter.process \/ ~adapter.running

adapterSendPrompt(adapter, message) ==
    updateTotalTokens(
        [adapter EXCEPT !.tokenBreakdown.messages = @ + ((PromptLength(message) + 3) \div 4)])

\* nanoid()
NewId(W) == W.nextEventId + 1

\* the tokens emitEvent adds to an event that has none
tokenInfo(adapter) ==
    [added |-> 0, total |-> adapter.totalTokens, limit |-> TokensLimit,
     breakdown |-> adapter.tokenBreakdown]

\* emitEvent of adapter a, for the event literal {id: nanoid(), type, timestamp,
\* sessionId, data} its callers hand it
emitEvent(W, a, type, timestamp, data, dbOk) ==
    IF W.threw THEN W
    ELSE handleEvent([W EXCEPT !.nextEventId = NewId(W)],
                     W.adapters[a].sessionId,
                     [id |-> NewId(W), type |-> type, timestamp |-> timestamp,
                      sessionId |-> W.adapters[a].sessionId, data |-> data,
                      tokens |-> tokenInfo(W.adapters[a])],
                     dbOk)

\* case 'tool_use': the skill_activated event and the skills estimate after it
afterSkillEvent(skill, a) ==
    IF skill.threw THEN skill
    ELSE [skill EXCEPT !.adapters[a] = updateTotalTokens(
             [@ EXCEPT !.tokenBreakdown.skills = @ + SkillTokens])]

afterToolCall(called, a, use, timestamp, dbOk) ==
    IF use.name = "Skill" /\ ~called.threw
    THEN afterSkillEvent(
             emitEvent(called, a, "skill_activated", timestamp,
                 [skillName |-> IF "skill" \in DOMAIN use.input
                                 THEN use.input.skill ELSE "unknown",
                  source |-> "plugin",
                  tokensAdded |-> SkillTokens], dbOk), a)
    ELSE called

\* case 'tool_use'
onToolUse(W, a, use, timestamp, dbOk) ==
    afterToolCall(
        emitEvent([W EXCEPT !.adapters[a].pendingToolCalls =
                      MapSet(@, use.id, [name |-> use.name, startTime |-> timestamp])],
                  a,
                  IF IsMcpName(use.name) THEN "mcp_call" ELSE "tool_call",
                  timestamp,
                  IF IsMcpName(use.name)
                  THEN [server |-> McpServer(use.name), tool |-> McpTool(use.name),
                        input |-> use.input, status |-> "running"]
                  ELSE [toolName |-> use.name, toolId |-> use.id,
                        input |-> use.input, status |-> "running"],
                  dbOk),
        a, use, timestamp, dbOk)

\* the data of the tool_result event
toolResultData(pendingToolCalls, res, timestamp) ==
    IF res.tool_use_id \in DOMAIN pendingToolCalls
    THEN [toolId |-> res.tool_use_id,
          toolName |-> pendingToolCalls[res.tool_use_id].name,
          result |-> res.content,
          isError |-> res.is_error,
          duration |-> timestamp - pendingToolCalls[res.tool_use_id].startTime]
    ELSE [toolId |-> res.tool_use_id,
          toolName |-> "unknown",
          result |-> res.content,
          isError |-> res.is_error]

afterToolResult(emitted, a, res) ==
    IF emitted.threw THEN emitted
    ELSE [emitted EXCEPT !.adapters[a].pendingToolCalls = MapDelete(@, res.tool_use_id)]

\* case 'tool_result'
onToolResult(W, a, res, timestamp, dbOk) ==
    afterToolResult(
        emitEvent(W, a, "tool_result", timestamp,
                  toolResultData(W.adapters[a].pendingToolCalls, res, timestamp), dbOk),
        a, res)

\* the messages estimate of case 'usage': Math.max(0, total - system - skills - mcp)
messagesOf(total, b) ==
    IF total - b.system - b.skills - b.mcp > 0
    THEN total - b.system - b.skills - b.mcp ELSE 0

\* case 'usage': data.breakdown is this.tokenBreakdown itself, not a copy
onUsage(W, a, usage, timestamp, dbOk) ==
    emitEvent([W EXCEPT !.adapters[a].totalTokens =
                            usage.input_tokens + usage.output_tokens,
                        !.adapters[a].tokenBreakdown.messages =
                            messagesOf(usage.input_tokens + usage.output_tokens,
                                       W.adapters[a].tokenBreakdown)],
              a, "context_update", timestamp,
              [breakdown |-> [ref |-> a],
               totalTokens |-> usage.input_tokens + usage.output_tokens,
               limit |-> TokensLimit],
              dbOk)

\* handleClaudeEvent(event)
handleClaudeEvent(W, a, ev, timestamp, dbOk) ==
    CASE ev.type = "assistant" ->
            IF ev.text # ""
            THEN emitEvent(W, a, "message", timestamp,
                     [role |-> "assistant", content |-> ev.text], dbOk)
            ELSE W
      [] ev.type = "tool_use" ->
            IF "tool_use" \in DOMAIN ev
            THEN onToolUse(W, a, ev.tool_use, timestamp, dbOk) ELSE W
      [] ev.type = "tool_result" ->
            IF "tool_result" \in DOMAIN ev
            THEN onToolResult(W, a, ev.tool_result, timestamp, dbOk) ELSE W
      [] ev.type = "content_block" ->
            IF ev.thinking # ""
            THEN emitEvent(W, a, "thinking", timestamp, [content |-> ev.thinking], dbOk)
            ELSE W
      [] ev.type = "usage" ->
            IF "usage" \in DOMAIN ev THEN onUsage(W, a, ev.usage, timestamp, dbOk) ELSE W
      [] ev.type = "error" ->
            emitEvent(W, a, "error", timestamp,
                [message |-> IF ev.message # "" THEN ev.message ELSE "Unknown error"], dbOk)
      [] OTHER -> W

\* the catch of parseLine: it takes a failed JSON.parse and whatever
\* handleClaudeEvent threw, and emits the line as an assistant message
parseLineCatch(tried, a, line, timestamp, dbOk) ==
    IF ~tried.threw THEN tried
    ELSE IF line.json \/ ~line.box
    THEN emitEvent([tried EXCEPT !.threw = FALSE], a, "message", timestamp,
                   [role |-> "assistant", content |-> line.raw], dbOk)
    ELSE [tried EXCEPT !.threw = FALSE]

\* parseLine(line)
parseLine(W, a, line, timestamp, dbOk) ==
    parseLineCatch(IF line.json THEN handleClaudeEvent(W, a, line, timestamp, dbOk)
                   ELSE [W EXCEPT !.threw = TRUE],
                   a, line, timestamp, dbOk)

\* the catch and finally of readOutput: an exception ends the loop
readOutputCatch(parsed, a) ==
    IF parsed.threw
    THEN [parsed EXCEPT !.threw = FALSE,
                        !.adapters[a].running = FALSE,
                        !.adapters[a].reading = FALSE]
    ELSE parsed

\* one line read in the loop of readOutput
readOutputLine(W, a, line, timestamp, dbOk) ==
    readOutputCatch(parseLine(W, a, line, timestamp, dbOk), a)

---------------------------------------------------------------------------
(* session-manager.ts: the registry and the lifecycle operations           *)

NoAdapter == 0

\* the ActiveSession literal of createSession, startSession and subscribe
ActiveSession(session) ==
    [session |-> session,
     adapter |-> NoAdapter,
     subscribers |-> {},
     recentEvents |-> RingBuffer(RecentEventsCapacity),
     contextState |-> createInitialContext]

\* db.updateSession(id, {status})
updateSession(rows, id, status) ==
    IF id \in DOMAIN rows THEN [rows EXCEPT ![id].status = status] ELSE rows

\* the variables a handler run threads, written back
Commit(W) ==
    /\ activeSessions' = W.activeSessions
    /\ dbEvents' = W.dbEvents
    /\ adapters' = W.adapters
    /\ sent' = W.sent
    /\ nextEventId' = W.nextEventId

\* createSession(workingDir, name, agentType)
CreateSession(id, agentType) ==
    /\ Cardinality(usedIds) < Len(SessionOrder)
    /\ id = SessionOrder[Cardinality(usedIds) + 1]
    /\ LET session == [id |-> id, status |-> "stopped", agentType |-> agentType,
                       tokensUsed |-> 0]
       IN  /\ dbSessions' = MapSet(dbSessions, id, session)
           /\ activeSessions' = MapSet(activeSessions, id, ActiveSession(session))
    /\ usedIds' = usedIds \cup {id}
    /\ UNCHANGED <<rbVars, dbEvents, adapters, sockets, sent, nextEventId>>

\* the map after the lazy materialization at the head of startSession and subscribe
Materialized(id) ==
    IF id \in DOMAIN activeSessions \/ id \notin DOMAIN dbSessions THEN activeSessions
    ELSE MapSet(activeSessions, id, ActiveSession(dbSessions[id]))

\* a test every agent type passes: what the rejection of a start rules out
supportedAny(agentType) == TRUE

\* sessionData.session.agentType === 'claude-code'
supported(agentType) == agentType = "claude-code"

\* startSession(id), spawned telling whether Bun.spawn succeeds
StartSession(id, spawned) ==
    LET live == Materialized(id)
        a == Len(adapters) + 1
    IN  IF id \notin DOMAIN live
        THEN \* throw new Error(`Session ${id} not found`)
             UNCHANGED <<rbVars, activeSessions, dbSessions, dbEvents, adapters, sockets,
                            sent, usedIds, nextEventId>>
        ELSE IF ~supported(live[id].session.agentType)
        THEN \* throw new Error(`Agent type ... not supported yet`)
             /\ activeSessions' = live
             /\ UNCHANGED <<rbVars, dbSessions, dbEvents, adapters, sockets, sent, usedIds,
                            nextEventId>>
        ELSE /\ adapters' = Append(adapters, adapterStart(ClaudeCodeAdapter(id), spawned))
             /\ IF spawned
                THEN /\ activeSessions' = [live EXCEPT ![id].adapter = a,
                                                       ![id].session.status = "running"]
                     /\ dbSessions' = updateSession(dbSessions, id, "running")
                ELSE \* await sessionData.adapter.start() rejects
                     /\ activeSessions' = [live EXCEPT ![id].adapter = a]
                     /\ UNCHANGED dbSessions
             /\ UNCHANGED <<rbVars, dbEvents, sockets, sent, usedIds, nextEventId>>

\* sendPrompt after handleEvent(id, userEvent): await active.adapter.sendPrompt(message)
promptAdapter(handled, a, message) ==
    IF handled.threw \/ adapterSendPromptThrows(handled.adapters[a]) THEN handled
    ELSE [handled EXCEPT !.adapters[a] = adapterSendPrompt(@, message)]

\* sendPrompt(id, message) on a session with an adapter
sendPrompt(W, id, message, timestamp, dbOk) ==
    promptAdapter(
        handleEvent([W EXCEPT !.nextEventId = NewId(W)], id,
                    [id |-> NewId(W), type |-> "message", timestamp |-> timestamp,
                     sessionId |-> id, data |-> [role |-> "user", content |-> message]],
                    dbOk),
        W.activeSessions[id].adapter, message)

SendPrompt(id, message, timestamp, dbOk) ==
    /\ IF id \notin DOMAIN activeSessions \/ activeSessions[id].adapter = NoAdapter
       THEN \* throw new Error(`Session ${id} not started or no adapter`)
            UNCHANGED <<activeSessions, dbEvents, adapters, sent, nextEventId>>
       ELSE Commit(sendPrompt(World, id, message, timestamp, dbOk))
    /\ UNCHANGED <<rbVars, dbSessions, sockets, usedIds>>

\* a test that takes any in-memory state for an attached adapter: what the silence
\* of pause and resume on an unattached session rules out
liveOnly(id) == id \in DOMAIN activeSessions

\* if (active?.adapter)
attached(id) == id \in DOMAIN activeSessions /\ activeSessions[id].adapter # NoAdapter

\* pauseSession(id)
PauseSession(id) ==
    /\ IF attached(id)
       THEN /\ adapters' = [adapters EXCEPT ![activeSessions[id].adapter] = adapterPause(@)]
            /\ activeSessions' = [activeSessions EXCEPT ![id].session.status = "paused"]
            /\ dbSessions' = updateSession(dbSessions, id, "paused")
       ELSE UNCHANGED <<adapters, activeSessions, dbSessions>>
    /\ UNCHANGED <<rbVars, dbEvents, sockets, sent, usedIds, nextEventId>>

\* the session map resumeSession(id) leaves
resumed(id) ==
    IF attached(id) THEN [activeSessions EXCEPT ![id].session.status = "running"]
    ELSE activeSessions

\* resumeSession(id)
ResumeSession(id) ==
    /\ IF attached(id)
       THEN /\ adapters' = [adapters EXCEPT ![activeSessions[id].adapter] = adapterResume(@)]
            /\ dbSessions' = updateSession(dbSessions, id, "running")
       ELSE UNCHANGED <<adapters, dbSessions>>
    /\ activeSessions' = resumed(id)
    /\ UNCHANGED <<rbVars, dbEvents, sockets, sent, usedIds, nextEventId>>

\* a stop that also empties the subscriber set: what the frame of stop rules out
stoppedAndUnsubscribed(id) ==
    IF attached(id)
    THEN [activeSessions |-> [activeSessions EXCEPT ![id].adapter = NoAdapter,
                                                    ![id].session.status = "stopped",
                                                    ![id].subscribers = {}],
          adapters |-> [adapters EXCEPT ![activeSessions[id].adapter] = adapterStop(@)],
          dbSessions |-> updateSession(dbSessions, id, "stopped")]
    ELSE [activeSessions |-> activeSessions, adapters |-> adapters,
          dbSessions |-> dbSessions]

\* the state stopSession(id) leaves: its effect on the map, the heap and the table
stopped(id) ==
    IF attached(id)
    THEN [activeSessions |-> [activeSessions EXCEPT ![id].adapter = NoAdapter,
                                                    ![id].session.status = "stopped"],
          adapters |-> [adapters EXCEPT ![activeSessions[id].adapter] = adapterStop(@)],
          dbSessions |-> updateSession(dbSessions, id, "stopped")]
    ELSE [activeSessions |-> activeSessions, adapters |-> adapters,
          dbSessions |-> dbSessions]

\* stopSession(id)
StopSession(id) ==
    /\ activeSessions' = stopped(id).activeSessions
    /\ adapters' = stopped(id).adapters
    /\ dbSessions' = stopped(id).dbSessions
    /\ UNCHANGED <<rbVars, dbEvents, sockets, sent, usedIds, nextEventId>>

\* deleteSession(id): stopSession, activeSessions.delete, db.deleteSession
DeleteSession(id) ==
    /\ activeSessions' = MapDelete(stopped(id).activeSessions, id)
    /\ adapters' = stopped(id).adapters
    /\ dbSessions' = MapDelete(stopped(id).dbSessions, id)
    /\ dbEvents' = deleteEventsOf(dbEvents, id)
    /\ UNCHANGED <<rbVars, sockets, sent, usedIds, nextEventId>>

\* a backfill sent newest first: what the order of a subscriber's stream rules out
backfillNewestFirst(r, heap) ==
    [i \in 1..Len(getAll(r)) |-> stringifyEvent(getAll(r)[Len(getAll(r)) + 1 - i], heap)]

\* the strings subscribe sends: the recent events, serialized one by one
backfill(r, heap) ==
    [i \in 1..Len(getAll(r)) |-> stringifyEvent(getAll(r)[i], heap)]

\* websocket.open(ws): subscribe(ws.data.sessionId, ws)
WsOpen(w, id) ==
    /\ sockets[w].state = "new"
    /\ \A i \in DOMAIN SocketOrder :
          SocketOrder[i] = w => \A j \in 1..(i - 1) : sockets[SocketOrder[j]].state # "new"
    /\ sockets' = [sockets EXCEPT ![w] = [state |-> "open", sessionId |-> id]]
    /\ LET live == Materialized(id)
       IN  IF id \notin DOMAIN live
           THEN UNCHANGED <<activeSessions, sent>>
           ELSE /\ activeSessions' = [live EXCEPT ![id].subscribers = @ \cup {w}]
                /\ sent' = [sent EXCEPT ![w] = @ \o backfill(live[id].recentEvents, adapters)]
    /\ UNCHANGED <<rbVars, dbSessions, dbEvents, adapters, usedIds, nextEventId>>

\* the connection of socket w is lost; websocket.close has not run yet
WsBreak(w) ==
    /\ sockets[w].state = "open"
    /\ sockets' = [sockets EXCEPT ![w].state = "broken"]
    /\ UNCHANGED <<rbVars, activeSessions, dbSessions, dbEvents, adapters, sent, usedIds,
                   nextEventId>>

\* a close that leaves the socket in the subscriber set: what the end of delivery
\* after an unsubscribe rules out
WsCloseStillSubscribed(w) ==
    /\ sockets[w].state \in {"open", "broken"}
    /\ sockets' = [sockets EXCEPT ![w].state = "closed"]
    /\ sent' = [sent EXCEPT ![w] = <<>>]
    /\ UNCHANGED <<rbVars, activeSessions, dbSessions, dbEvents, adapters, usedIds,
                   nextEventId>>

\* websocket.close(ws): unsubscribe(ws.data.sessionId, ws)
WsClose(w) ==
    /\ sockets[w].state \in {"open", "broken"}
    /\ sockets' = [sockets EXCEPT ![w].state = "closed"]
    /\ sent' = [sent EXCEPT ![w] = <<>>]
    /\ activeSessions' =
          IF sockets[w].sessionId \in DOMAIN activeSessions
          THEN [activeSessions EXCEPT ![sockets[w].sessionId].subscribers = @ \ {w}]
          ELSE activeSessions
    /\ UNCHANGED <<rbVars, dbSessions, dbEvents, adapters, usedIds, nextEventId>>

\* one line of the process's output reaches the readOutput loop of adapter a
AdapterLine(a, line, timestamp, dbOk) ==
    /\ a \in DOMAIN adapters
    /\ adapters[a].reading
    /\ Commit(readOutputLine(World, a, line, timestamp, dbOk))
    /\ UNCHANGED <<rbVars, dbSessions, sockets, usedIds>>

\* reader.read() answers done: the process has ended, by itself or killed
StreamDone(a) ==
    /\ a \in DOMAIN adapters
    /\ adapters[a].reading
    /\ adapters' = [adapters EXCEPT ![a].reading = FALSE,
                                    ![a].running = FALSE,
                                    ![a].proc = IF @ = "alive" THEN "exited" ELSE @]
    /\ UNCHANGED <<rbVars, activeSessions, dbSessions, dbEvents, sockets, sent, usedIds,
                   nextEventId>>

\* the server process ends and is started again: the tables stay, the memory goes
Restart ==
    /\ activeSessions # EmptyMap
    /\ activeSessions' = EmptyMap
    /\ adapters' = <<>>
    /\ sockets' = [w \in WebSockets |->
                      IF sockets[w].state \in {"open", "broken"}
                      THEN [sockets[w] EXCEPT !.state = "closed"] ELSE sockets[w]]
    /\ sent' = [w \in WebSockets |-> <<>>]
    /\ UNCHANGED <<rbVars, dbSessions, dbEvents, usedIds, nextEventId>>

---------------------------------------------------------------------------
(* Events of every type handed to handleEvent                              *)

\* the events an adapter may hand to its onEvent callback, without id and session:
\* type, timestamp, data and, for some, tokens
ToolCallShapes ==
    { [type |-> "tool_call", timestamp |-> 1,
       data |-> [toolName |-> "Write", input |-> [file_path |-> "a.ts"], status |-> "running"]],
      [type |-> "tool_call", timestamp |-> 2,
       data |-> [toolName |-> "Edit", input |-> [file_path |-> "a.ts"], status |-> "running"]],
      [type |-> "tool_call", timestamp |-> 2,
       data |-> [toolName |-> "Write", input |-> [file_path |-> "b.ts"], status |-> "running"]],
      [type |-> "tool_call", timestamp |-> 1,
       data |-> [toolName |-> "Read", input |-> [file_path |-> "c.ts"], status |-> "running"]],
      [type |-> "tool_call", timestamp |-> 2,
       data |-> [toolName |-> "Write", input |-> [content |-> "x"], status |-> "running"]] }

ToolResultShapes ==
    { [type |-> "tool_result", timestamp |-> 3,
       data |-> [toolName |-> "Write", isError |-> FALSE]],
      [type |-> "tool_result", timestamp |-> 1,
       data |-> [toolName |-> "unknown", isError |-> TRUE]],
      [type |-> "tool_result", timestamp |-> 3,
       data |-> [toolName |-> "unknown", isError |-> FALSE]],
      [type |-> "tool_result", timestamp |-> 3,
       data |-> [toolName |-> "Read", isError |-> TRUE]] }

McpCallShapes ==
    { [type |-> "mcp_call", timestamp |-> 1,
       data |-> [server |-> "fs", tool |-> "read", status |-> "running"]],
      [type |-> "mcp_call", timestamp |-> 1,
       data |-> [server |-> "fs", tool |-> "write", status |-> "running"]],
      [type |-> "mcp_call", timestamp |-> 1,
       data |-> [server |-> "db", tool |-> "read", status |-> "running"]] }

SkillShapes ==
    { [type |-> "skill_activated", timestamp |-> 1,
       data |-> [skillName |-> "tdd", source |-> "plugin", tokensAdded |-> SkillTokens]] }

UsageA == [added |-> 0, total |-> 100, limit |-> TokensLimit,
           breakdown |-> [system |-> 100, skills |-> 0, mcp |-> 0, messages |-> 0,
                          buffer |-> 0]]
UsageB == [totalTokens |-> 200, limit |-> 1000,
           breakdown |-> [system |-> 100, skills |-> 0, mcp |-> 0, messages |-> 100,
                          buffer |-> 0]]

PlainShapes ==
    { [type |-> "message", timestamp |-> 1, data |-> [role |-> "user", content |-> "hi"]],
      [type |-> "message", timestamp |-> 1, data |-> [role |-> "assistant", content |-> "ok"],
       tokens |-> UsageA],
      [type |-> "thinking", timestamp |-> 1, data |-> [content |-> "hm"]],
      [type |-> "error", timestamp |-> 1, data |-> [message |-> "boom"]],
      [type |-> "loop_event", timestamp |-> 1, data |-> [iteration |-> 1]] }

ContextUpdateShapes ==
    { [type |-> "context_update", timestamp |-> 1, data |-> UsageB],
      [type |-> "context_update", timestamp |-> 1, data |-> UsageB, tokens |-> UsageA] }

EventShapes ==
    ToolCallShapes \cup ToolResultShapes \cup McpCallShapes \cup SkillShapes
        \cup PlainShapes \cup ContextUpdateShapes

\* the AgentEvent of a shape: the id is nanoid()'s, the session the adapter's
AgentEvent(shape, id, sessionId) ==
    [x \in (DOMAIN shape) \cup {"id", "sessionId"} |->
        IF x = "id" THEN id ELSE IF x = "sessionId" THEN sessionId ELSE shape[x]]

\* the onEvent callback of startSession: (event) => handleEvent(id, event)
OnEvent(id, shape, dbOk) ==
    /\ Commit(handleEvent([World EXCEPT !.nextEventId = NewId(World)], id,
                          AgentEvent(shape, NewId(World), id), dbOk))
    /\ UNCHANGED <<rbVars, dbSessions, sockets, usedIds>>

---------------------------------------------------------------------------
(* The stand-alone RingBuffer                                              *)

RBPush(item) ==
    /\ Len(rbPushed) < MaxPushes
    /\ rb' = push(rb, item)
    /\ rbPushed' = Append(rbPushed, item)
    /\ UNCHANGED engineVars

RBClear ==
    /\ rb' = clear(rb)
    /\ rbPushed' = <<>>
    /\ UNCHANGED engineVars

---------------------------------------------------------------------------
(* Specifications                                                          *)

EngineInit ==
    /\ activeSessions = EmptyMap
    /\ dbSessions = EmptyMap
    /\ dbEvents = <<>>
    /\ adapters = <<>>
    /\ sockets = [w \in WebSockets |-> [state |-> "new", sessionId |-> ""]]
    /\ sent = [w \in WebSockets |-> <<>>]
    /\ usedIds = {}
    /\ nextEventId = 0

\* the engine, with the stand-alone buffer left as built
Init ==
    /\ rb = RingBuffer(1)
    /\ rbPushed = <<>>
    /\ EngineInit

\* the engine with one session: every operation, two sockets, the store failing or not
Next ==
    \/ \E id \in OneSession, agentType \in AgentTypes : CreateSession(id, agentType)
    \/ \E id \in OneSession, spawned \in BOOLEAN :
          StartSession(id, spawned) /\ Len(adapters') <= MaxAdapters
    \/ \E id \in OneSession, message \in Prompts, timestamp \in Timestamps,
          dbOk \in DbOutcomes :
          /\ nextEventId < MaxEvents
          /\ SendPrompt(id, message, timestamp, dbOk)
          /\ nextEventId' <= MaxEvents
    \/ \E id \in OneSession : PauseSession(id)
    \/ \E id \in OneSession : ResumeSession(id)
    \/ \E id \in OneSession : StopSession(id)
    \/ \E id \in OneSession : DeleteSession(id)
    \/ \E w \in WebSockets, id \in OneSession : WsOpen(w, id)
    \/ \E w \in WebSockets : WsBreak(w)
    \/ \E w \in WebSockets : WsClose(w)
    \/ \E a \in 1..MaxAdapters, line \in StreamLines, timestamp \in Timestamps,
          dbOk \in DbOutcomes :
          /\ nextEventId < MaxEvents
          /\ AdapterLine(a, line, timestamp, dbOk)
          /\ nextEventId' <= MaxEvents
    \/ \E a \in 1..MaxAdapters : StreamDone(a)
    \/ Restart

Spec == Init /\ [][Next]_vars

\* the lifecycle of one session: no event arrives, a session may be started twice
NextLife ==
    \/ \E id \in OneSession, agentType \in AgentTypes : CreateSession(id, agentType)
    \/ \E id \in OneSession, spawned \in BOOLEAN :
          StartSession(id, spawned) /\ Len(adapters') <= MaxStarts
    \/ \E id \in OneSession : PauseSession(id)
    \/ \E id \in OneSession : ResumeSession(id)
    \/ \E id \in OneSession : StopSession(id)
    \/ \E id \in OneSession : DeleteSession(id)
    \/ \E w \in WebSockets, id \in OneSession : WsOpen(w, id)
    \/ \E w \in WebSockets : WsClose(w)
    \/ \E a \in 1..MaxStarts : StreamDone(a)
    \/ Restart

SpecLife == Init /\ [][NextLife]_vars

\* two sessions side by side, each fed by its own adapter and by prompts; the store works
NextTwo ==
    \/ \E id \in SessionIds : CreateSession(id, "claude-code")
    \/ \E id \in SessionIds :
          StartSession(id, TRUE) /\ Len(adapters') <= MaxStarts
    \/ \E id \in SessionIds, message \in Prompts, timestamp \in Timestamps,
          dbOk \in DbWorks :
          /\ nextEventId < MaxEventsTwo
          /\ SendPrompt(id, message, timestamp, dbOk)
          /\ nextEventId' <= MaxEventsTwo
    \/ \E a \in 1..MaxStarts, line \in StreamLines, timestamp \in Timestamps,
          dbOk \in DbWorks :
          /\ nextEventId < MaxEventsTwo
          /\ AdapterLine(a, line, timestamp, dbOk)
          /\ nextEventId' <= MaxEventsTwo
    \/ \E a \in 1..MaxStarts : StreamDone(a)

SpecTwo == Init /\ [][NextTwo]_vars

\* two sessions fed with events whose timestamps are equal, rising or falling; the
\* store works
NextLog ==
    \/ \E id \in SessionIds : CreateSession(id, "claude-code")
    \/ \E id \in SessionIds :
          StartSession(id, TRUE) /\ Len(adapters') <= MaxStarts
    \/ \E id \in SessionIds, message \in Prompts, timestamp \in Clock, dbOk \in DbWorks :
          /\ nextEventId < MaxRows
          /\ SendPrompt(id, message, timestamp, dbOk)
          /\ nextEventId' <= MaxRows
    \/ \E a \in 1..MaxStarts, line \in StreamLines, timestamp \in Clock, dbOk \in DbWorks :
          /\ nextEventId < MaxRows
          /\ AdapterLine(a, line, timestamp, dbOk)
          /\ nextEventId' <= MaxRows
    \/ \E a \in 1..MaxStarts : StreamDone(a)

SpecLog == Init /\ [][NextLog]_vars

\* one session handed events of every type once it is created, with subscribers;
\* the store works
NextFold ==
    \/ \E id \in OneSession : CreateSession(id, "claude-code")
    \/ \E w \in WebSockets, id \in OneSession : WsOpen(w, id)
    \/ \E id \in OneSession, shape \in EventShapes, dbOk \in DbWorks :
          /\ id \in DOMAIN activeSessions
          /\ nextEventId < MaxFolds
          /\ OnEvent(id, shape, dbOk)

SpecFold == Init /\ [][NextFold]_vars

\* the tool_call of the n-th event of a run: a call of Read or of Write at instant n
ToolCallAt(n, toolName) ==
    [type |-> "tool_call", timestamp |-> n,
     data |-> [toolName |-> toolName, input |-> [file_path |-> "a.ts"],
               status |-> "running"]]

\* the calls of Write the log holds
Writes == Cardinality({i \in 1..Len(dbEvents) : dbEvents[i].data.toolName = "Write"})

\* one session handed a long run of tool_call events; the store works
NextTools ==
    \/ \E id \in OneSession : CreateSession(id, "claude-code")
    \/ \E id \in OneSession, toolName \in {"Read", "Write"}, dbOk \in DbWorks :
          /\ id \in DOMAIN activeSessions
          /\ nextEventId < MaxCalls
          /\ toolName = "Write" => Writes < MaxWrites
          /\ OnEvent(id, ToolCallAt(nextEventId + 1, toolName), dbOk)

SpecTools == Init /\ [][NextTools]_vars

\* the tool_use and tool_result lines the claude process may write: two calls, of
\* the same tool or not, and the result of each, failed or not
ToolLines ==
    { [json |-> TRUE, type |-> "tool_use", raw |-> "{tool_use}",
       tool_use |-> [id |-> id, name |-> name, input |-> [file_path |-> "a.ts"]]] :
        id \in {"t1", "t2"}, name \in {"Write", "Read"} }
    \cup
    { [json |-> TRUE, type |-> "tool_result", raw |-> "{tool_result}",
       tool_result |-> [tool_use_id |-> id, content |-> "", is_error |-> failed]] :
        id \in {"t1", "t2"}, failed \in BOOLEAN }

\* one session whose adapter reads tool_use and tool_result lines, at equal, rising
\* or falling instants; the store works
NextCalls ==
    \/ \E id \in OneSession : CreateSession(id, "claude-code")
    \/ \E id \in OneSession : StartSession(id, TRUE) /\ Len(adapters') <= MaxAdapters
    \/ \E a \in 1..MaxAdapters, line \in ToolLines, timestamp \in Clock, dbOk \in DbWorks :
          /\ nextEventId < MaxToolLines
          /\ AdapterLine(a, line, timestamp, dbOk)
          /\ nextEventId' <= MaxToolLines

SpecCalls == Init /\ [][NextCalls]_vars

\* one session that is started, paused, resumed, stopped and started again while
\* subscribers are attached and its adapters feed it; the store works
NextAgain ==
    \/ \E id \in OneSession : CreateSession(id, "claude-code")
    \/ \E id \in OneSession : StartSession(id, TRUE) /\ Len(adapters') <= MaxStarts
    \/ \E id \in OneSession : PauseSession(id)
    \/ \E id \in OneSession : ResumeSession(id)
    \/ \E id \in OneSession : StopSession(id)
    \/ \E w \in WebSockets, id \in OneSession : WsOpen(w, id)
    \/ \E a \in 1..MaxStarts, line \in StreamLines, timestamp \in Timestamps,
          dbOk \in DbWorks :
          /\ nextEventId < MaxEvents
          /\ AdapterLine(a, line, timestamp, dbOk)
          /\ nextEventId' <= MaxEvents
    \/ \E a \in 1..MaxStarts : StreamDone(a)

SpecAgain == Init /\ [][NextAgain]_vars

\* the stand-alone RingBuffer of any capacity, pushed into and cleared
InitRB ==
    /\ \E capacity \in 1..MaxCapacity : rb = RingBuffer(capacity)
    /\ rbPushed = <<>>
    /\ EngineInit

NextRB ==
    \/ \E item \in Items : RBPush(item)
    \/ RBClear

SpecRB == InitRB /\ [][NextRB]_vars

---------------------------------------------------------------------------
(* Properties of the RingBuffer (SpecRB)                                   *)

\* C1: after n pushes into a RingBuffer of capacity C with no clear in between,
\* getAll() is exactly the min(n, C) most recently pushed items, oldest first
\* (150 pushes into capacity 100 start at the 51st; here 5 into 3 start at the 3rd).
C1_GetAllMostRecent == getAll(rb) = LastN(rbPushed, rb.capacity)

\* five pushes into capacity 3: the two oldest are gone, the third comes first
C1_Wrapped ==
    /\ rb.capacity = 3
    /\ rbPushed = <<"a", "a", "b", "a", "a">>
    /\ getAll(rb) = <<"b", "a", "a">>

\* C2: after any pushes and clears the buffer holds at most C items: size() <= C,
\* getAll().length = size(), the write index is in 0..C-1 and no slot outside
\* 0..C-1 is ever assigned, so a push into a full buffer leaves its size at C.
C2_Bounded ==
    /\ size(rb) <= rb.capacity
    /\ Len(getAll(rb)) = size(rb)
    /\ rb.writeIndex \in 0..(rb.capacity - 1)
    /\ DOMAIN rb.buffer \subseteq 0..(rb.capacity - 1)

\* a full buffer that has been pushed into again
C2_PushedWhenFull ==
    /\ Len(rbPushed) > rb.capacity
    /\ size(rb) = rb.capacity

---------------------------------------------------------------------------
(* Properties of the engine                                                *)

\* the ids of a sequence of events, rows or messages, in order
Ids(s) == [i \in 1..Len(s) |-> s[i].id]
IdSet(s) == {s[i].id : i \in 1..Len(s)}

\* nanoid hands the ids out in the order the events are built, each just before it
\* is handed to handleEvent: a sequence keeps the arrival order when its ids rise
Ascending(s) == \A i, j \in 1..Len(s) : i < j => s[i].id < s[j].id

\* the recent-event cache of a live session, oldest first
Cached(s) == getAll(activeSessions[s].recentEvents)

\* the aggregate of a live session as a reader of it sees it
Aggregate(s) ==
    [activeSessions[s].contextState EXCEPT
        !.tokens.breakdown = DerefBreakdown(@, adapters)]

\* the fold of events from the aggregate cs
RECURSIVE Fold(_, _)
Fold(cs, events) ==
    IF events = <<>> THEN cs
    ELSE Fold(foldByType(foldTokens(cs, Head(events)), Head(events)), Tail(events))

\* the persisted events of a session read back in log order, and their fold
LogOf(s) == [i \in 1..Len(eventsOf(dbEvents, s)) |-> rowToEvent(eventsOf(dbEvents, s)[i])]
FoldOfLog(s) == Fold(createInitialContext, LogOf(s))

\* C3: a subscriber that attaches after e1..ek and stays attached receives e1..ek,
\* oldest first, then every later event in arrival order, none twice, none missed:
\* while it is attached and connected its stream is the session's cache, event
\* for event.
C3_BackfillThenLive ==
    \A s \in DOMAIN activeSessions : \A w \in activeSessions[s].subscribers :
        sockets[w].state = "open" => Ids(sent[w]) = Ids(Cached(s))

\* C4: every event handed to handleEvent for a live session is cached, persisted,
\* folded and sent exactly once to every subscriber attached at that moment: each
\* step that caches an event also leaves its row in the log and appends it, once,
\* to the stream of every connected subscriber.
C4_CachedPersistedSent ==
    [][\A s \in DOMAIN activeSessions :
          s \in DOMAIN activeSessions' =>
             \A e \in IdSet(Cached(s)') \ IdSet(Cached(s)) :
                /\ e \in IdSet(eventsOf(dbEvents', s))
                /\ \A w \in activeSessions[s].subscribers :
                      sockets[w].state = "open" =>
                         Cardinality({i \in 1..Len(sent'[w]) : sent'[w][i].id = e}) = 1]_vars

\* C5: the log of a session, its cache and the stream of each attached subscriber
\* keep the arrival order: each is a sequence of events of that session, one entry
\* per event, with rising ids, so none is reordered, duplicated or merged.
C5_OrderPreserved ==
    /\ \A s \in SessionIds :
          /\ Ascending(eventsOf(dbEvents, s))
          /\ IdSet(eventsOf(dbEvents, s)) \subseteq 1..nextEventId
    /\ \A s \in DOMAIN activeSessions :
          /\ Ascending(Cached(s))
          /\ \A i \in 1..Len(Cached(s)) :
                Cached(s)[i].sessionId = s /\ Cached(s)[i].id \in 1..nextEventId
          /\ \A w \in activeSessions[s].subscribers :
                /\ Ascending(sent[w])
                /\ \A i \in 1..Len(sent[w]) :
                      sent[w][i].sessionId = s /\ sent[w][i].id \in 1..nextEventId

\* a subscriber that has received two events of which the log holds only the second
C5_TwoReceived ==
    \E s \in DOMAIN activeSessions : \E w \in activeSessions[s].subscribers :
        /\ Ids(sent[w]) = <<1, 2>>
        /\ Ids(Cached(s)) = <<1, 2>>
        /\ Ids(eventsOf(dbEvents, s)) = <<2>>

\* C6: for the events accepted for a session while it is live, the aggregate built
\* event by event equals the fold of their persisted copies, in log order, from
\* the empty aggregate.
C6_LiveFoldIsReplay ==
    \A s \in DOMAIN activeSessions :
        IdSet(eventsOf(dbEvents, s)) \subseteq IdSet(Cached(s)) =>
            Aggregate(s) = FoldOfLog(s)

\* C7: right after start or subscribe has materialized the live state of a session
\* from its persisted row, as in every other state, the aggregate equals the fold
\* of the session's full persisted log.
C7_MaterializedIsFoldOfLog ==
    [][\A s \in SessionIds :
          (s \notin DOMAIN activeSessions /\ s \in DOMAIN activeSessions') =>
              Aggregate(s)' = FoldOfLog(s)']_vars

\* an accepted event without what tells one session or one instant from another
Anonymous(event) ==
    [type |-> event.type, data |-> event.data,
     tokens |-> IF HasTokens(event) THEN <<event.tokens>> ELSE <<>>]
AcceptedBy(s) == [i \in 1..Len(LogOf(s)) |-> Anonymous(LogOf(s)[i])]

\* C8: the aggregate of a session depends only on the events accepted for it: two
\* sessions that were fed the same event sequence have the same aggregate.
C8_SameEventsSameAggregate ==
    \A s \in DOMAIN activeSessions : \A t \in DOMAIN activeSessions :
        AcceptedBy(s) = AcceptedBy(t) => Aggregate(s) = Aggregate(t)

\* C9: when insertEvent raises, the event is still folded and delivered: every
\* cached event that has no row in the log is in the stream of every connected
\* subscriber,
\* and the session's token count is the one the last cached event carries.
C9_FailedInsertStillDelivered ==
    \A s \in DOMAIN activeSessions :
        \A i \in 1..Len(Cached(s)) :
            Cached(s)[i].id \notin IdSet(eventsOf(dbEvents, s)) =>
                /\ \A w \in activeSessions[s].subscribers :
                      sockets[w].state = "open" => Cached(s)[i].id \in IdSet(sent[w])
                /\ (i = Len(Cached(s)) /\ HasTokens(Cached(s)[i])) =>
                      activeSessions[s].session.tokensUsed = Cached(s)[i].tokens.total

\* the status of a session: that of its live state, or else of its row
StatusOf(s) ==
    IF s \in DOMAIN activeSessions THEN activeSessions[s].session.status
    ELSE dbSessions[s].status

\* C10: the status of a session changes only from stopped to running by start,
\* from running to paused by pause, from paused to running by resume and from
\* running or paused to stopped by stop.
C10_StatusTransitions ==
    [][\A s \in SessionIds :
          (s \in DOMAIN dbSessions /\ s \in DOMAIN dbSessions'
              /\ StatusOf(s)' # StatusOf(s)) =>
             \/ /\ StatusOf(s) = "stopped" /\ StatusOf(s)' = "running"
                /\ \E spawned \in BOOLEAN : StartSession(s, spawned)
             \/ /\ StatusOf(s) = "running" /\ StatusOf(s)' = "paused"
                /\ PauseSession(s)
             \/ /\ StatusOf(s) = "paused" /\ StatusOf(s)' = "running"
                /\ ResumeSession(s)
             \/ /\ StatusOf(s) \in {"running", "paused"} /\ StatusOf(s)' = "stopped"
                /\ StopSession(s)]_vars

---------------------------------------------------------------------------
(* Properties of the lifecycle                                             *)

\* the status stopSession(s) leaves the session with
StatusAfterStop(s) ==
    IF s \in DOMAIN stopped(s).activeSessions
    THEN stopped(s).activeSessions[s].session.status
    ELSE stopped(s).dbSessions[s].status

\* C11: stop on a running or paused session leaves it stopped with no adapter
\* attached, whenever it is called.
C11_StopLeavesStopped ==
    \A s \in DOMAIN dbSessions :
        StatusOf(s) \in {"running", "paused"} =>
            /\ StatusAfterStop(s) = "stopped"
            /\ s \in DOMAIN stopped(s).activeSessions =>
                  stopped(s).activeSessions[s].adapter = NoAdapter

\* C11, the second half: a start that spawns its process on a stopped session
\* leaves the same session running with a running adapter attached.
C11_StartAfterStop ==
    [][\A s \in DOMAIN dbSessions :
          (StatusOf(s) = "stopped" /\ dbSessions[s].agentType = "claude-code"
              /\ StartSession(s, TRUE)) =>
             /\ s \in DOMAIN activeSessions'
             /\ activeSessions'[s].session.status = "running"
             /\ dbSessions'[s].status = "running"
             /\ activeSessions'[s].adapter # NoAdapter
             /\ adapters'[activeSessions'[s].adapter].running]_vars

---------------------------------------------------------------------------
(* index.ts: what the routes answer. A value that may be null is <<>> or <<v>>. *)

\* getSession(id)
getSession(id) ==
    IF id \in DOMAIN activeSessions THEN <<activeSessions[id].session>>
    ELSE IF id \in DOMAIN dbSessions THEN <<dbSessions[id]>>
    ELSE <<>>

\* getContextSummary(id)
getContextSummary(id) ==
    IF id \in DOMAIN activeSessions THEN <<activeSessions[id].contextState>>
    ELSE IF id \in DOMAIN dbSessions
    THEN <<[createInitialContext EXCEPT !.tokens.used = dbSessions[id].tokensUsed]>>
    ELSE <<>>

\* json(data) and error(message, status)
json(data) == [status |-> 200, body |-> data]
error(message, status) == [status |-> status, body |-> [error |-> message]]

\* the message of the Error startSession(id) throws, <<>> when it throws none
startSessionError(id, spawned) ==
    IF id \notin DOMAIN Materialized(id) THEN <<"Session not found">>
    ELSE IF ~supported(Materialized(id)[id].session.agentType)
    THEN <<"Agent type not supported yet">>
    ELSE IF ~spawned THEN <<"spawn failed">>
    ELSE <<>>

\* the message of the Error sendPrompt(id, message) throws, <<>> when it throws none
sendPromptError(id, dbOk) ==
    IF id \notin DOMAIN activeSessions \/ activeSessions[id].adapter = NoAdapter
    THEN <<"Session not started or no adapter">>
    ELSE IF ~dbOk[1] THEN <<"insert failed">>
    ELSE IF adapterSendPromptThrows(adapters[activeSessions[id].adapter])
    THEN <<"Agent not running">>
    ELSE <<>>

\* the catch of fetch: error(err.message, 500)
caught(thrown) ==
    IF thrown = <<>> THEN json([success |-> TRUE]) ELSE error(thrown[1], 500)

\* GET /session/:id
getSessionRoute(id) ==
    IF getSession(id) = <<>> THEN error("Session not found", 404)
    ELSE json(getSession(id)[1])

\* POST /session/:id/start
startRoute(id, spawned) == caught(startSessionError(id, spawned))

\* POST /session/:id/prompt
promptRoute(id, dbOk) == caught(sendPromptError(id, dbOk))

\* POST /session/:id/pause and POST /session/:id/resume
pauseRoute(id) == json([success |-> TRUE])
resumeRoute(id) == json([success |-> TRUE])

\* GET /session/:id/context-summary
contextSummaryRoute(id) ==
    IF getContextSummary(id) = <<>> THEN error("Session not found", 404)
    ELSE json(getContextSummary(id)[1])

\* the ids of the sessions deleteSession has removed: an id is never handed out twice
Deleted == usedIds \ DOMAIN dbSessions

\* C12: after deleteSession(id) every operation on that id is answered as an error
\* about an unknown session, and none finds any state of that id to change.
C12_DeletedIsNotFound ==
    \A id \in Deleted :
        /\ id \notin DOMAIN activeSessions
        /\ Materialized(id) = activeSessions
        /\ getSessionRoute(id).status = 404
        /\ contextSummaryRoute(id).status = 404
        /\ \A spawned \in BOOLEAN : startRoute(id, spawned).status # 200
        /\ \A dbOk \in DbOutcomes : promptRoute(id, dbOk).status # 200
        /\ pauseRoute(id).status # 200
        /\ resumeRoute(id).status # 200

\* C13: deleteSession(id) stops the attached adapter and removes the in-memory
\* state, the session row and every event row of that id; from then on none of
\* them exists again, whatever arrives afterwards.
C13_DeleteRemovesAll ==
    [][/\ \A id \in Deleted' :
             /\ id \notin DOMAIN activeSessions'
             /\ id \notin DOMAIN dbSessions'
             /\ eventsOf(dbEvents', id) = <<>>
       /\ \A id \in DOMAIN activeSessions :
             (DeleteSession(id) /\ activeSessions[id].adapter # NoAdapter) =>
                /\ ~adapters'[activeSessions[id].adapter].process
                /\ ~adapters'[activeSessions[id].adapter].running
                /\ adapters'[activeSessions[id].adapter].proc # "alive"]_vars

\* a deleted session that had accepted two events, its killed process still being read
C13_DeletedWithEvents ==
    /\ Deleted # {}
    /\ nextEventId = 2
    /\ dbEvents = <<>>
    /\ \E a \in DOMAIN adapters :
          adapters[a].sessionId \in Deleted /\ adapters[a].proc = "killed"
             /\ adapters[a].reading

\* C14: when stop has turned the status of a session to 'stopped', no adapter is
\* attached and no process started for that session is still alive.
C14_StoppedMeansReleased ==
    [][\A s \in DOMAIN activeSessions :
          (s \in DOMAIN activeSessions'
              /\ activeSessions[s].session.status # "stopped"
              /\ activeSessions'[s].session.status = "stopped") =>
             /\ activeSessions'[s].adapter = NoAdapter
             /\ \A a \in DOMAIN adapters' :
                   adapters'[a].sessionId = s => adapters'[a].proc # "alive"]_vars

\* C15: start on a session of agent type 'cursor' is answered with an error, and it
\* leaves the status in memory, the row and the adapters as they were, with no
\* adapter attached.
C15_UnsupportedStartRejected ==
    [][\A s \in DOMAIN dbSessions' :
          dbSessions'[s].agentType = "cursor" =>
             /\ \A spawned \in BOOLEAN :
                   startRoute(s, spawned)' = error("Agent type not supported yet", 500)
             /\ s \in DOMAIN activeSessions' =>
                   /\ activeSessions'[s].adapter = NoAdapter
                   /\ activeSessions'[s].session.status = "stopped"
             /\ dbSessions'[s].status = "stopped"
             /\ \A spawned \in BOOLEAN :
                   (s \in DOMAIN dbSessions /\ StartSession(s, spawned)) =>
                       /\ StatusOf(s)' = StatusOf(s)
                       /\ dbSessions' = dbSessions
                       /\ adapters' = adapters]_vars

\* a session of type 'cursor' brought back into memory after a restart closed its
\* subscriber's socket: its start is answered with the error
C15_CursorStartRefused ==
    \E s \in DOMAIN activeSessions :
        /\ activeSessions[s].session.agentType = "cursor"
        /\ activeSessions[s].subscribers = {}
        /\ sockets[SocketOrder[1]] = [state |-> "closed", sessionId |-> s]
        /\ startRoute(s, TRUE).status = 500

\* C16: pause and resume on a session with no adapter attached (never started,
\* stopped, or not in memory) are answered without error and change nothing.
C16_UnattachedPauseIsNoOp ==
    [][\A s \in SessionIds :
          (~(s \in DOMAIN activeSessions /\ activeSessions[s].adapter # NoAdapter)
              /\ (PauseSession(s) \/ ResumeSession(s))) =>
             /\ UNCHANGED vars
             /\ pauseRoute(s).status = 200
             /\ resumeRoute(s).status = 200]_vars

\* a session stopped after a run: in memory, its process killed, no adapter attached
C16_StoppedAfterRun ==
    \E s \in DOMAIN activeSessions :
        /\ activeSessions[s].adapter = NoAdapter
        /\ activeSessions[s].session.status = "stopped"
        /\ \E a \in DOMAIN adapters :
              adapters[a].sessionId = s /\ adapters[a].proc = "killed"

\* a session torn down by stop (in memory, 'stopped', no adapter) or by delete
TornDown(s) ==
    \/ s \in Deleted
    \/ /\ s \in DOMAIN activeSessions
       /\ activeSessions[s].adapter = NoAdapter
       /\ activeSessions[s].session.status = "stopped"

\* C17: an event that arrives for a session after stop or delete has torn it down
\* is dropped: no step adds a row to the log of a torn-down session, changes its
\* cache or its aggregate, or sends anything to its subscribers.
C17_TornDownDropsEvents ==
    [][\A s \in SessionIds :
          TornDown(s) =>
             /\ IdSet(eventsOf(dbEvents', s)) \subseteq IdSet(eventsOf(dbEvents, s))
             /\ (s \in DOMAIN activeSessions /\ s \in DOMAIN activeSessions') =>
                   /\ Cached(s)' = Cached(s)
                   /\ activeSessions'[s].contextState = activeSessions[s].contextState
                   /\ \A w \in activeSessions[s].subscribers \cap
                                  activeSessions'[s].subscribers :
                         sent'[w] = sent[w]]_vars

\* what a step appends to a sequence that only grows
Appended(before, after) == SubSeq(after, Len(before) + 1, Len(after))

C19_UnsubscribeEndsDelivery ==
    [][\A w \in WebSockets :
          /\ sockets'[w].state = "closed" =>
                /\ sent'[w] = <<>>
                /\ \A s \in DOMAIN activeSessions' :
                      w \notin activeSessions'[s].subscribers
          /\ WsClose(w) =>
                /\ DOMAIN activeSessions' = DOMAIN activeSessions
                /\ \A s \in DOMAIN activeSessions :
                      activeSessions'[s] =
                         [activeSessions[s] EXCEPT !.subscribers = @ \ {w}]
                /\ \A v \in WebSockets \ {w} : sent'[v] = sent[v]
                /\ UNCHANGED <<dbSessions, dbEvents, adapters>>
          /\ sockets[w].state = "closed" =>
                \A s \in DOMAIN activeSessions \cap DOMAIN activeSessions' :
                   \A v \in activeSessions[s].subscribers \cap
                               activeSessions'[s].subscribers :
                      sockets[v].state = "open" =>
                         Ids(Appended(sent[v], sent'[v]))
                            = Ids(Appended(eventsOf(dbEvents, s), eventsOf(dbEvents', s)))]_vars

\* the first socket has closed; the second, still subscribed, has received both events
C19_OtherStillServed ==
    \E s \in DOMAIN activeSessions :
        /\ sockets[SocketOrder[1]] = [state |-> "closed", sessionId |-> s]
        /\ activeSessions[s].subscribers = {SocketOrder[2]}
        /\ sockets[SocketOrder[2]].state = "open"
        /\ Ids(sent[SocketOrder[2]]) = <<1, 2>>

\* C20: after every operation the persisted row of a live session holds the status
\* and the tokensUsed of the in-memory Session.
C20_RowMatchesSession ==
    \A s \in DOMAIN activeSessions :
        /\ s \in DOMAIN dbSessions
        /\ dbSessions[s].status = activeSessions[s].session.status
        /\ dbSessions[s].tokensUsed = activeSessions[s].session.tokensUsed

\* C20, the status alone: the row and the in-memory Session agree on it
C20_RowStatusMatches ==
    \A s \in DOMAIN activeSessions :
        s \in DOMAIN dbSessions /\ dbSessions[s].status = activeSessions[s].session.status

---------------------------------------------------------------------------
(* Properties of the error paths                                           *)

\* the state sendPrompt(id, message) leaves, whether it throws or not
prompted(id, message, timestamp, dbOk) ==
    IF attached(id) THEN sendPrompt(World, id, message, timestamp, dbOk) ELSE World

\* C21: a sendPrompt that returns an error for want of an adapter or of a running
\* process has cached, persisted, folded and delivered no user-message event: it
\* leaves the session map, the log and every subscriber's stream as they were.
C21_RejectedPromptLeavesNothing ==
    \A id \in SessionIds, message \in Prompts, timestamp \in Timestamps, dbOk \in DbWorks :
        sendPromptError(id, dbOk) # <<>> =>
            /\ prompted(id, message, timestamp, dbOk).activeSessions = activeSessions
            /\ prompted(id, message, timestamp, dbOk).dbEvents = dbEvents
            /\ prompted(id, message, timestamp, dbOk).sent = sent

\* C21, the rejection for want of an adapter: nothing is left behind
C21_UnattachedPromptLeavesNothing ==
    \A id \in SessionIds, message \in Prompts, timestamp \in Timestamps, dbOk \in DbWorks :
        ~attached(id) =>
            /\ sendPromptError(id, dbOk) # <<>>
            /\ prompted(id, message, timestamp, dbOk) = World

\* the adapters attached to a live session
Attached == {a \in DOMAIN adapters :
                /\ adapters[a].sessionId \in DOMAIN activeSessions
                /\ activeSessions[adapters[a].sessionId].adapter = a}

\* a step in which the process of adapter a ends, or writes a line that is not JSON
AdapterFails(a) ==
    \/ StreamDone(a)
    \/ \E line \in StreamLines, timestamp \in Timestamps, dbOk \in DbWorks :
          ~line.json /\ AdapterLine(a, line, timestamp, dbOk)

\* C22: when the process of a session's adapter ends or writes output that cannot
\* be parsed, an event of type error for that session is cached, persisted and
\* delivered to the connected subscribers, and the status of the session stays.
C22_AdapterFailureIsErrorEvent ==
    [][\A a \in Attached :
          AdapterFails(a) =>
             LET s == adapters[a].sessionId
             IN  /\ s \in DOMAIN activeSessions'
                 /\ StatusOf(s)' = StatusOf(s)
                 /\ \E i \in 1..Len(Cached(s)') :
                       /\ Cached(s)'[i].type = "error"
                       /\ Cached(s)'[i].id \notin IdSet(Cached(s))
                       /\ Cached(s)'[i].id \in IdSet(eventsOf(dbEvents', s))
                       /\ \A w \in activeSessions[s].subscribers :
                             sockets[w].state = "open" =>
                                Cached(s)'[i].id \in IdSet(sent'[w])]_vars

\* C22, the status alone: the end of the process or an unparseable line leaves the
\* status of the session, in memory and in its row, as it was
C22_AdapterFailureKeepsStatus ==
    [][\A a \in Attached :
          AdapterFails(a) =>
             /\ adapters[a].sessionId \in DOMAIN activeSessions'
             /\ StatusOf(adapters[a].sessionId)' = StatusOf(adapters[a].sessionId)
             /\ dbSessions' = dbSessions]_vars

---------------------------------------------------------------------------
(* Properties of the paginated log (SpecLog)                               *)

Reverse(s) == [i \in 1..Len(s) |-> s[Len(s) + 1 - i]]

\* the event types a page may be restricted to, "" for no restriction
TypeFilters == {"", "message", "error", "context_update"}

\* the page the persisted order asks for: the selected rows newest first by
\* insertion, the window [offset, offset + limit) of them
NewestFirstPage(sessionId, offset, limit, type) ==
    [i \in 1..Len(limitOffset(Reverse(selectEvents(dbEvents, sessionId, type)),
                              limit, offset)) |->
        rowToEvent(limitOffset(Reverse(selectEvents(dbEvents, sessionId, type)),
                               limit, offset)[i])]

\* C23: getEvents answers the events of the session only, of the given type when one
\* is given, newest first in insertion order, and exactly the window
\* [offset, offset + limit) of that order, whatever the timestamps are.
C23_PageIsNewestFirstWindow ==
    \A sessionId \in SessionIds, offset \in 0..MaxRows, limit \in 0..MaxRows,
       type \in TypeFilters :
        \A page \in getEvents(sessionId, offset, limit, type) :
            page = NewestFirstPage(sessionId, offset, limit, type)

\* C23, with a clock that rises from each event to the next: the page is the window
\* of the insertion order, newest first
C23_RisingClockNewestFirst ==
    (\A i, j \in 1..Len(dbEvents) : i < j => dbEvents[i].timestamp < dbEvents[j].timestamp)
        => C23_PageIsNewestFirstWindow

\* C23, what holds for every clock: a page holds events of the session and of the
\* type asked for, each once, as many as the window takes
C23_PageIsOfSessionAndType ==
    \A sessionId \in SessionIds, offset \in 0..MaxRows, limit \in 0..MaxRows,
       type \in TypeFilters :
        \A page \in getEvents(sessionId, offset, limit, type) :
            /\ Len(page) = Len(NewestFirstPage(sessionId, offset, limit, type))
            /\ \A i \in 1..Len(page) :
                  /\ page[i].sessionId = sessionId
                  /\ type # "" => page[i].type = type
                  /\ page[i].id \in IdSet(eventsOf(dbEvents, sessionId))
                  /\ \A j \in 1..Len(page) : i # j => page[i].id # page[j].id

---------------------------------------------------------------------------
(* Properties of the events as values                                      *)

\* the token breakdowns the log of session s holds, in the data or the tokens of a row
PersistedBreakdowns(s) ==
    {eventsOf(dbEvents, s)[j].data.breakdown :
        j \in {k \in 1..Len(eventsOf(dbEvents, s)) :
                  "breakdown" \in DOMAIN eventsOf(dbEvents, s)[k].data}}
    \cup {eventsOf(dbEvents, s)[j].tokens[1].breakdown :
            j \in {k \in 1..Len(eventsOf(dbEvents, s)) :
                      eventsOf(dbEvents, s)[k].tokens # <<>>}}

\* C24: an event handed to the engine is never changed afterwards: the copy in the
\* cache, read now, has the data that was persisted and that was delivered live,
\* and the breakdown the aggregate holds is one that was persisted.
C24_EventsNeverMutated ==
    \A s \in DOMAIN activeSessions :
        /\ \A i \in 1..Len(Cached(s)) :
              /\ \A j \in 1..Len(dbEvents) :
                    dbEvents[j].id = Cached(s)[i].id =>
                       stringifyData(Cached(s)[i].data, adapters) = dbEvents[j].data
              /\ \A w \in activeSessions[s].subscribers : \A j \in 1..Len(sent[w]) :
                    sent[w][j].id = Cached(s)[i].id =>
                       stringifyEvent(Cached(s)[i], adapters) = sent[w][j]
        /\ Aggregate(s).tokens.breakdown \in PersistedBreakdowns(s) \cup {ZeroBreakdown}

---------------------------------------------------------------------------
(* Properties of the lazy materialization                                  *)

\* a session that has its row and no state in memory
Dormant(id) == id \in DOMAIN dbSessions /\ id \notin DOMAIN activeSessions

\* C25: start, subscribe and resume on an id with a row and no in-memory state each
\* build its ActiveSession from the row; on an id without a row none of them leaves
\* in-memory state.
C25_AttachMaterializes ==
    \A id \in SessionIds :
        /\ Dormant(id) =>
              /\ id \in DOMAIN Materialized(id)
              /\ Materialized(id)[id] = ActiveSession(dbSessions[id])
              /\ id \in DOMAIN resumed(id)
        /\ (id \notin DOMAIN dbSessions /\ id \notin DOMAIN activeSessions) =>
              /\ id \notin DOMAIN Materialized(id)
              /\ id \notin DOMAIN resumed(id)

\* C25, start and subscribe alone: a step of either on a dormant session leaves it in
\* memory with the session of its row, no adapter before the start attaches one, an
\* empty cache and the empty aggregate; on an id without a row it leaves the map as
\* it was.
C25_StartAndSubscribeMaterialize ==
    [][\A id \in SessionIds :
          ((\E spawned \in BOOLEAN : StartSession(id, spawned))
              \/ (\E w \in WebSockets : WsOpen(w, id))) =>
             /\ Dormant(id) =>
                   /\ id \in DOMAIN activeSessions'
                   /\ [activeSessions'[id].session EXCEPT !.status = "stopped"]
                         = [dbSessions[id] EXCEPT !.status = "stopped"]
                   /\ activeSessions'[id].recentEvents = RingBuffer(RecentEventsCapacity)
                   /\ activeSessions'[id].contextState = createInitialContext
             /\ id \notin DOMAIN dbSessions => activeSessions' = activeSessions]_vars

---------------------------------------------------------------------------
(* Properties of the fold (SpecFold, SpecTools)                            *)

\* the event a step has added to the log of session s, when it has added one
Folds(s) == Len(LogOf(s)') = Len(LogOf(s)) + 1
Folded(s) == LogOf(s)'[Len(LogOf(s)')]

\* the usage an event states: in its data, or in its tokens
UsageOfData(e) ==
    [used |-> e.data.totalTokens, limit |-> e.data.limit, breakdown |-> e.data.breakdown]
UsageOfTokens(e) ==
    [used |-> e.tokens.total, limit |-> e.tokens.limit, breakdown |-> e.tokens.breakdown]

\* C26: after the fold of one event the tracked usage is that of the data of a
\* context_update, tokens or not; else that of the tokens of an event that has
\* them; else what it was.
C26_UsageAfterFold ==
    [][\A s \in DOMAIN activeSessions :
          (s \in DOMAIN activeSessions' /\ Folds(s)) =>
             Aggregate(s)'.tokens =
                IF Folded(s).type = "context_update" THEN UsageOfData(Folded(s))
                ELSE IF HasTokens(Folded(s)) THEN UsageOfTokens(Folded(s))
                ELSE Aggregate(s).tokens]_vars

\* a context_update that carries tokens has been folded last, and the tracked usage
\* is that of its data
C26_UpdateWithTokensFolded ==
    \E s \in DOMAIN activeSessions :
        /\ LogOf(s) # <<>>
        /\ LogOf(s)[Len(LogOf(s))].type = "context_update"
        /\ HasTokens(LogOf(s)[Len(LogOf(s))])
        /\ UsageOfTokens(LogOf(s)[Len(LogOf(s))]) # UsageOfData(LogOf(s)[Len(LogOf(s))])
        /\ Aggregate(s).tokens = UsageOfData(LogOf(s)[Len(LogOf(s))])

\* the tool_call events the log of session s holds, oldest first
IsToolCall(e) == e.type = "tool_call"
ToolCalls(s) == SelectSeq(LogOf(s), IsToolCall)

\* C27: after any fold the recent-tools list has at most 50 entries and holds the
\* min(k, 50) most recent of the k tool_call events folded, most recent first.
C27_RecentToolsAreLatest ==
    \A s \in DOMAIN activeSessions :
        LET recentTools == activeSessions[s].contextState.recentTools
            calls == ToolCalls(s)
            k == Len(calls)
        IN  /\ Len(recentTools) <= 50
            /\ Len(recentTools) = Min(k, 50)
            /\ \A i \in 1..Len(recentTools) :
                  /\ recentTools[i].name = calls[k + 1 - i].data.toolName
                  /\ recentTools[i].timestamp = calls[k + 1 - i].timestamp

\* more than 50 tool_call events have been folded, the oldest a call of Write, and
\* the list holds 50 entries
C27_OldestDropped ==
    \E s \in DOMAIN activeSessions :
        /\ Len(ToolCalls(s)) > 50
        /\ ToolCalls(s)[1].data.toolName = "Write"
        /\ Len(activeSessions[s].contextState.recentTools) = 50

\* a sequence without the later occurrences of what it holds already
RECURSIVE FirstOccurrences(_)
FirstOccurrences(seq) ==
    IF seq = <<>> THEN <<>>
    ELSE LET front == FirstOccurrences(SubSeq(seq, 1, Len(seq) - 1))
         IN  IF Includes(front, seq[Len(seq)]) THEN front ELSE Append(front, seq[Len(seq)])

\* the paths the folded Write and Edit calls of session s name, in log order
WritesPath(e) ==
    /\ e.type = "tool_call"
    /\ e.data.toolName \in {"Write", "Edit"}
    /\ "file_path" \in DOMAIN e.data.input
WrittenPaths(s) ==
    [i \in 1..Len(SelectSeq(LogOf(s), WritesPath)) |->
        SelectSeq(LogOf(s), WritesPath)[i].data.input.file_path]

\* the folded mcp_call events of session s, their servers, and the tools of a server
IsMcpCall(e) == e.type = "mcp_call"
McpCalls(s) == SelectSeq(LogOf(s), IsMcpCall)
ServersCalled(s) == [i \in 1..Len(McpCalls(s)) |-> McpCalls(s)[i].data.server]
RECURSIVE ToolsCalled(_, _)
ToolsCalled(calls, server) ==
    IF calls = <<>> THEN <<>>
    ELSE (IF Head(calls).data.server = server THEN <<Head(calls).data.tool>> ELSE <<>>)
         \o ToolsCalled(Tail(calls), server)

\* C28: after any fold the modified-files list holds each path a Write or Edit call
\* named, once, in order of first occurrence, and nothing else; the tool-server list
\* holds each server an mcp_call named, once, in order of first occurrence, with
\* each of its tools once.
C28_FilesAndServersOnce ==
    \A s \in DOMAIN activeSessions :
        LET cs == activeSessions[s].contextState
        IN  /\ cs.filesModified = FirstOccurrences(WrittenPaths(s))
            /\ [i \in 1..Len(cs.activeMcp) |-> cs.activeMcp[i].server]
                  = FirstOccurrences(ServersCalled(s))
            /\ \A i \in 1..Len(cs.activeMcp) :
                  cs.activeMcp[i].tools
                     = FirstOccurrences(ToolsCalled(McpCalls(s), cs.activeMcp[i].server))

\* one server called twice for the same tool and a file written: one server entry
\* with one tool, one path
C28_RepeatedCallTrackedOnce ==
    \E s \in DOMAIN activeSessions :
        /\ ServersCalled(s) = <<"fs", "fs">>
        /\ ToolsCalled(McpCalls(s), "fs") = <<"read", "read">>
        /\ WrittenPaths(s) = <<"a.ts">>
        /\ activeSessions[s].contextState.activeMcp = <<[server |-> "fs", tools |-> <<"read">>]>>
        /\ activeSessions[s].contextState.filesModified = <<"a.ts">>

\* the entries of the recent-tools list of session s a tool_result matches
MatchingTools(s, e) ==
    {i \in 1..Len(activeSessions[s].contextState.recentTools) :
        \/ activeSessions[s].contextState.recentTools[i].timestamp = e.timestamp
        \/ activeSessions[s].contextState.recentTools[i].name = e.data.toolName}

\* the list is kept newest first: the most recently recorded of a set of entries
MostRecent(entries) == CHOOSE i \in entries : \A j \in entries : i <= j

\* C29: the fold of a tool_result sets the status of the most recently recorded
\* entry with its timestamp or its tool name to error when it signals failure and
\* to done otherwise, changes no other entry and no other list, and changes
\* nothing when no entry matches.
C29_ResultMarksLatestMatch ==
    [][\A s \in DOMAIN activeSessions :
          (s \in DOMAIN activeSessions' /\ Folds(s) /\ Folded(s).type = "tool_result") =>
             LET cs == activeSessions[s].contextState
             IN  activeSessions'[s].contextState =
                    IF MatchingTools(s, Folded(s)) = {} THEN cs
                    ELSE [cs EXCEPT
                            !.recentTools[MostRecent(MatchingTools(s, Folded(s)))].status =
                                IF Folded(s).data.isError THEN "error" ELSE "done"]]_vars

\* the example: tool_call Write of a.ts, then its tool_result without failure
C29_WriteThenResultDone ==
    \E s \in DOMAIN activeSessions :
        /\ Len(LogOf(s)) = 2
        /\ LogOf(s)[1].type = "tool_call" /\ LogOf(s)[1].data.toolName = "Write"
        /\ LogOf(s)[1].data.input = [file_path |-> "a.ts"]
        /\ LogOf(s)[2].type = "tool_result" /\ ~LogOf(s)[2].data.isError
        /\ activeSessions[s].contextState.filesModified = <<"a.ts">>
        /\ activeSessions[s].contextState.recentTools =
              <<[name |-> "Write", status |-> "done", timestamp |-> 1]>>

\* two calls of Write, then a result for Write: the later call is marked, the
\* earlier one left running
C29_LaterOfTwoMarked ==
    \E s \in DOMAIN activeSessions :
        /\ Len(activeSessions[s].contextState.recentTools) = 2
        /\ activeSessions[s].contextState.recentTools[1].name = "Write"
        /\ activeSessions[s].contextState.recentTools[2].name = "Write"
        /\ activeSessions[s].contextState.recentTools[1].status = "done"
        /\ activeSessions[s].contextState.recentTools[2].status = "running"

\* the skill_activated events the log of session s holds
IsSkillActivated(e) == e.type = "skill_activated"
SkillsActivated(s) == SelectSeq(LogOf(s), IsSkillActivated)

\* C30: the fold of a message, thinking, error or loop_event event leaves the skills,
\* tool-server, recent-tools and modified-files lists as they were, and the event is
\* cached, persisted and appended to the stream of every connected subscriber; the
\* fold of a skill_activated only appends its entry to the skills list, whose
\* length is the number of skill_activated events folded.
C30_OtherTypesLeaveLists ==
    [][\A s \in DOMAIN activeSessions :
          (s \in DOMAIN activeSessions' /\ Folds(s)) =>
             LET cs == activeSessions[s].contextState
                 after == activeSessions'[s].contextState
             IN  /\ Folded(s).type \in {"message", "thinking", "error", "loop_event"} =>
                       /\ after.activeSkills = cs.activeSkills
                       /\ after.activeMcp = cs.activeMcp
                       /\ after.recentTools = cs.recentTools
                       /\ after.filesModified = cs.filesModified
                       /\ Folded(s).id \in IdSet(Cached(s)') \ IdSet(Cached(s))
                       /\ Folded(s).id \in IdSet(eventsOf(dbEvents', s))
                       /\ \A w \in activeSessions[s].subscribers :
                             sockets[w].state = "open" =>
                                /\ Len(sent'[w]) = Len(sent[w]) + 1
                                /\ sent'[w][Len(sent'[w])].id = Folded(s).id
                 /\ Folded(s).type = "skill_activated" =>
                       /\ after = [cs EXCEPT !.activeSkills =
                                      Append(@, [name |-> Folded(s).data.skillName,
                                                 source |-> Folded(s).data.source,
                                                 tokens |-> Folded(s).data.tokensAdded])]
                 /\ Len(after.activeSkills) = Len(SkillsActivated(s)')]_vars

\* the same skill activated twice and kept twice, then an error event that a
\* subscriber has received while the lists stayed
C30_DuplicateSkillThenError ==
    \E s \in DOMAIN activeSessions : \E w \in activeSessions[s].subscribers :
        /\ Len(LogOf(s)) = 3
        /\ LogOf(s)[3].type = "error"
        /\ Len(activeSessions[s].contextState.activeSkills) = 2
        /\ activeSessions[s].contextState.activeSkills[1]
              = activeSessions[s].contextState.activeSkills[2]
        /\ Ids(sent[w]) = Ids(LogOf(s))
        /\ Ids(Cached(s)) = Ids(LogOf(s))

---------------------------------------------------------------------------
(* Properties of the adapters of a session                                 *)

\* C31: while a session is paused its adapter hands no event to the engine: a line
\* of the process's output read in that time is neither cached, persisted, folded
\* nor sent to a subscriber.
C31_PausedAdapterIsSilent ==
    [][\A a \in Attached :
          (/\ adapters[a].paused
           /\ StatusOf(adapters[a].sessionId) = "paused"
           /\ \E line \in StreamLines, timestamp \in Timestamps, dbOk \in DbOutcomes :
                 AdapterLine(a, line, timestamp, dbOk)) =>
             /\ activeSessions' = activeSessions
             /\ dbEvents' = dbEvents
             /\ sent' = sent]_vars

\* the adapters of session s whose process was started and is neither stopped nor ended
Alive(s) == {a \in DOMAIN adapters : adapters[a].sessionId = s /\ adapters[a].proc = "alive"}

\* C32: each session has at most one adapter process that was started and not
\* stopped, and that one is the adapter attached to the session's in-memory state.
C32_OneAdapterPerSession ==
    \A s \in SessionIds :
        /\ Cardinality(Alive(s)) <= 1
        /\ \A a \in Alive(s) : s \in DOMAIN activeSessions /\ activeSessions[s].adapter = a

\* C32, with one start per session at most: the process alive is the attached one
C32_FirstStartAttached ==
    \A s \in SessionIds :
        Cardinality({a \in DOMAIN adapters : adapters[a].sessionId = s}) <= 1 =>
            \A a \in Alive(s) : s \in DOMAIN activeSessions /\ activeSessions[s].adapter = a

\* C33: in every state of a live session the status is running or paused exactly
\* when an adapter is attached, and stopped exactly when none is.
C33_StatusAgreesWithAdapter ==
    \A s \in DOMAIN activeSessions :
        /\ activeSessions[s].session.status \in {"running", "paused", "stopped"}
        /\ activeSessions[s].session.status \in {"running", "paused"}
              <=> activeSessions[s].adapter # NoAdapter

---------------------------------------------------------------------------
(* Properties of the token count                                           *)

---------------------------------------------------------------------------
(* Properties of the cache against the log                                 *)

\* a live session none of whose persisted events has left the memory: it has been
\* live since its creation (the cache of a session materialized later starts empty)
LiveSinceCreation(s) ==
    /\ s \in DOMAIN activeSessions
    /\ Len(eventsOf(dbEvents, s)) <= RecentEventsCapacity =>
          IdSet(eventsOf(dbEvents, s)) \subseteq IdSet(Cached(s))

\* C35: for a session live since its creation the cache holds the last min(n, 100)
\* of the n events of its log, in log order, in every state.
C35_CacheIsLogTail ==
    \A s \in DOMAIN activeSessions :
        LiveSinceCreation(s) =>
            Ids(Cached(s)) = Ids(LastN(eventsOf(dbEvents, s), 100))

---------------------------------------------------------------------------
(* Properties of the pairing of tool calls and results (SpecCalls)         *)

\* the tool_result events the log of session s holds for the call toolId
ResultsOf(s, toolId) ==
    {i \in 1..Len(LogOf(s)) :
        LogOf(s)[i].type = "tool_result" /\ LogOf(s)[i].data.toolId = toolId}

\* every tool_call of the log has its own toolId and one tool_result, folded after it
AllCallsCompleted(s) ==
    /\ \A i, j \in 1..Len(ToolCalls(s)) :
          i # j => ToolCalls(s)[i].data.toolId # ToolCalls(s)[j].data.toolId
    /\ \A i \in 1..Len(ToolCalls(s)) :
          /\ Cardinality(ResultsOf(s, ToolCalls(s)[i].data.toolId)) = 1
          /\ \A r \in ResultsOf(s, ToolCalls(s)[i].data.toolId) :
                LogOf(s)[r].id > ToolCalls(s)[i].id

\* the outcome the result of the call toolId states
OutcomeOf(s, toolId) ==
    IF LogOf(s)[CHOOSE r \in ResultsOf(s, toolId) : TRUE].data.isError
    THEN "error" ELSE "done"

\* C36: when several tool calls and the result of each have been folded, the entry
\* of every call in the recent-tools list carries the outcome of its own result.
C36_EachCallOwnOutcome ==
    \A s \in DOMAIN activeSessions :
        (Len(ToolCalls(s)) >= 2 /\ AllCallsCompleted(s)) =>
            LET recentTools == activeSessions[s].contextState.recentTools
                k == Len(ToolCalls(s))
            IN  \A i \in 1..Len(recentTools) :
                   recentTools[i].status = OutcomeOf(s, ToolCalls(s)[k + 1 - i].data.toolId)

\* C36, one call at a time: when each call's result is folded before the next call,
\* every entry carries the outcome of its own result
C36_SequentialCallsOwnOutcome ==
    \A s \in DOMAIN activeSessions :
        (/\ Len(ToolCalls(s)) >= 2
         /\ AllCallsCompleted(s)
         /\ \A i \in 1..Len(LogOf(s)) :
               LogOf(s)[i].type = "tool_call" =>
                  /\ i < Len(LogOf(s))
                  /\ LogOf(s)[i + 1].type = "tool_result"
                  /\ LogOf(s)[i + 1].data.toolId = LogOf(s)[i].data.toolId) =>
            LET recentTools == activeSessions[s].contextState.recentTools
                k == Len(ToolCalls(s))
            IN  \A i \in 1..Len(recentTools) :
                   recentTools[i].status = OutcomeOf(s, ToolCalls(s)[k + 1 - i].data.toolId)

---------------------------------------------------------------------------
(* Properties of the frame of stop, pause and resume (SpecAgain)           *)

\* C37: stop, pause and resume leave the subscriber set, the cache and the aggregate
\* of the session as they were and send nothing; and a line read by the adapter
\* attached to a session, after a later start as before, is appended to the cache
\* and to the stream of every subscriber attached.
C37_StopPauseResumeKeepTheRest ==
    [][\A s \in DOMAIN activeSessions :
          /\ (StopSession(s) \/ PauseSession(s) \/ ResumeSession(s)) =>
                /\ s \in DOMAIN activeSessions'
                /\ activeSessions'[s].subscribers = activeSessions[s].subscribers
                /\ activeSessions'[s].recentEvents = activeSessions[s].recentEvents
                /\ activeSessions'[s].contextState = activeSessions[s].contextState
                /\ Aggregate(s)' = Aggregate(s)
                /\ sent' = sent
          /\ \A a \in Attached :
                (/\ adapters[a].sessionId = s
                 /\ \E line \in StreamLines, timestamp \in Timestamps, dbOk \in DbWorks :
                       AdapterLine(a, line, timestamp, dbOk)) =>
                   /\ Ids(Cached(s)') = Append(Ids(Cached(s)), nextEventId')
                   /\ \A w \in activeSessions[s].subscribers :
                         Ids(sent'[w]) = Append(Ids(sent[w]), nextEventId')]_vars

\* a session stopped and started again: its first process is killed and read out,
\* the second adapter is attached, and a subscriber attached throughout holds the
\* events of both runs, as does the cache
C37_SubscriberServedAcrossStop ==
    \E s \in DOMAIN activeSessions : \E w \in activeSessions[s].subscribers :
        /\ Len(adapters) = 2
        /\ adapters[1].proc = "killed" /\ ~adapters[1].reading
        /\ activeSessions[s].adapter = 2
        /\ activeSessions[s].session.status = "running"
        /\ Ids(sent[w]) = <<1, 2>>
        /\ Ids(Cached(s)) = <<1, 2>>
        /\ activeSessions[s].contextState.tokens.used > 0

---------------------------------------------------------------------------
(* Properties of getRecent and clear (SpecRB)                              *)

\* the items of rbPushed the buffer still holds: the last min(pushes, capacity)
Held == LastN(rbPushed, rb.capacity)

\* C38: for every n >= 0 getRecent(n) is the min(n, size()) most recently pushed
\* items in push order, none for n = 0; and clear() leaves size() 0, getAll() empty
\* and the buffer as a new one of the same capacity.
C38_GetRecentAndClear ==
    /\ \A n \in 0..(MaxPushes + 1) :
          getRecent(rb, n) = LastN(rbPushed, Min(n, size(rb)))
    /\ size(clear(rb)) = 0
    /\ getAll(clear(rb)) = <<>>
    /\ clear(rb) = RingBuffer(rb.capacity)

\* C38, for n >= 1 and for clear: as stated
C38_GetRecentOfOneOrMore ==
    /\ \A n \in 1..(MaxPushes + 1) :
          getRecent(rb, n) = LastN(rbPushed, Min(n, size(rb)))
    /\ size(clear(rb)) = 0
    /\ getAll(clear(rb)) = <<>>
    /\ clear(rb) = RingBuffer(rb.capacity)

====
